---- MODULE Spec2Model ----
(***************************************************************************)
(* Verification model of the HolyC compiler driver's JIT session store     *)
(* (lowering/llvm_backend.cpp), the threaded runtime helpers               *)
(* (runtime/hc_runtime.cpp), the try/catch lowering                        *)
(* (frontend/hir.cpp, lowering/llvm_irbuilder_backend.cpp) and the REPL    *)
(* engine (src/repl.cpp).                                                  *)
(***************************************************************************)
EXTENDS Integers, Sequences, FiniteSets, TLC

\* ---------------------------------------------------------------- bounds
MaxThreads == 2   \* threads the executed programs may create in one run
MaxModules == 3   \* modules added to one JIT session before it is reset
MaxTasks == 2     \* Spawn calls that reach pthread_create successfully
MaxFrames == 3    \* try statements in the function under execution
MaxLines == 2     \* lines of an input the REPL has read and not yet processed
MaxStmts == 3     \* statements directly inside the body of the function sema analyzes
MaxPieces == 4    \* pieces of text in the file given to the preprocessor
MaxOperands == 3  \* operands of an #if expression without signs and parentheses
MaxCases == 3     \* case clauses of a switch
MaxTables == 2    \* reflection tables registered on the thread
MaxLockStmts == 2 \* statements of the lock block one thread runs
MaxCondDepth == 2 \* conditional chains open at one line of a file
MaxBody == 2      \* identifiers of a line and of a macro body

VARIABLES
  global_prefix,     \* jit.getDataLayout().getGlobalPrefix()
  sessions,          \* JitSessions(): session key -> JitSessionState
  g_spawn_inflight,  \* runtime spawn bookkeeping
  g_next_task_id,    \* id handed out by the next successful Spawn
  thr,               \* threads created by Spawn / JobQue
  jobs,              \* CJob handles returned by JobQue
  drv,               \* driver thread: position inside the backend call
  call,              \* arguments of the backend call in progress
  result,            \* Result of the last backend call that returned
  try_parent,        \* the function's try statements: region id -> enclosing position
  try_pos,           \* where the thread executes: root, a try body or a catch body
  g_try_stack,       \* thread-local head of the try frame list
  frame_prev,        \* hc_try_frame::prev of every frame
  g_exception_payload, \* thread-local payload of the last throw
  try_pc,            \* "run", "aborted" (std::abort) or "hung" (hc_try_pop never returns)
  try_live,          \* history: the frames pushed and neither popped nor consumed by a throw
  catalog_,          \* ReplEngine's DeclCatalog
  cell_id_,          \* ReplEngine's cell counter
  pending_input,     \* RunRepl: lines of the input that is not complete yet
  explicit_multiline,        \* RunRepl: between ":{" and ":}"
  explicit_multiline_buffer, \* RunRepl: lines read since ":{"
  processed,         \* what ProcessCell returned in the last loop iteration
  fn_body,           \* the Block of the FunctionDecl sema analyzes
  sema_diag,         \* the diagnostic AnalyzeFunction threw, if any
  pp_files,          \* what a.hc and b.hc hold
  pp_filename,       \* the filename RunPreprocessor is called with
  pp_result,         \* what RunPreprocessor returned or threw
  if_expr,           \* the tokens of the expression of an #if line
  if_result,         \* what EvalIfExprValue returned or threw
  lane_stmt,         \* the statement v.lane[index] = x
  lane_v,            \* the variable v
  lane_x,            \* the variable x
  lane_pc,           \* the next statement: the assignment, the load or none
  lane_out,          \* what the lane load returned
  switch_block,      \* the CaseClauses of a SwitchStmt's Block
  switch_hir,        \* the kSwitch HIRStmt
  switch_bodies,     \* the lowered statement lists of the case bodies and the default
  switch_tests,      \* the ranges the emitted tests compare with
  switch_cfg,        \* the emitted basic blocks and their branches
  switch_run,        \* a run of the emitted switch: condition value, bodies entered
  switch_pc,         \* the pass that reaches the switch next
  g_reflection_fields,      \* thread-local: the registered table
  g_hash_classes,           \* thread-local: the classes of the reflection cache
  g_reflection_cache_ready, \* thread-local: the cache is built
  reflection_epoch,  \* history: 1 + the number of ClearReflectionCache calls of a registration
  held_member,       \* the CMemberLst pointer the program keeps
  hash_find,         \* the last HashFind since the table was registered
  meta_lookup,       \* the last MemberMetaData / MemberMetaFind since then, and its member
  lock_x,            \* the U8 variable the lock blocks update
  lock_done,         \* history: the statements each thread has started, in order
  lock_pc,           \* per thread: between statements, or before the atomicrmw
  cond_values,       \* what EvalIfExpr gives for each #if expression of the file
  cond,              \* ProcessFile: the stack of CondFrame
  cond_chains,       \* history: one record beside every frame of cond
  cond_macros,       \* macros_: the names defined
  cond_diag,         \* the diagnostic thrown, "done" at the end of the file
  cond_last,         \* history: the line handled last
  macros_,           \* the macro table: name -> body
  mac_line,          \* the line ExpandLine is called with
  mac_stack,         \* the calls of ExpandText in progress, the innermost last
  active_macros,     \* the set ExpandLine hands to ExpandText
  mac_out,           \* the identifiers written to out, all calls together
  mac_pc,            \* "line", "expand", "done" or "stack overflow"
  inc_chain,         \* the number of files below file 0 in the chain of includes
  inc_closed,        \* the last file of the chain includes file 0
  inc_stack,         \* include_stack: the files whose ProcessFile has not returned
  inc_depth,         \* the depth argument of the innermost ProcessFile
  inc_pc,            \* "enter", "lines", "return", "done" or "failed"
  inc_diag,          \* the code of the diagnostic thrown
  inc_processed,     \* history: the depths at which the lines of a file were read
  next_exception_region_id_, \* the lowerer's counter of exception regions
  hir_function,      \* the function lowered last: its block and its HIR body
  sym_program,       \* the top-level declarations of the program given to sema
  sym_tables,        \* global_symbols_, imported_symbols_, functions_, function_definitions_
  sym_pc             \* the call of Analyze that comes next

jitvars == <<global_prefix, sessions, g_spawn_inflight, g_next_task_id, thr, jobs, drv, call, result>>

tryvars == <<try_parent, try_pos, g_try_stack, frame_prev, g_exception_payload, try_pc,
             try_live>>

replvars == <<catalog_, cell_id_, pending_input, explicit_multiline,
              explicit_multiline_buffer, processed>>

semavars == <<fn_body, sema_diag>>

prevars == <<pp_files, pp_filename, pp_result>>

ifvars == <<if_expr, if_result>>

lanevars == <<lane_stmt, lane_v, lane_x, lane_pc, lane_out>>

switchvars == <<switch_block, switch_hir, switch_bodies, switch_tests, switch_cfg, switch_run, switch_pc>>

reflvars == <<g_reflection_fields, g_hash_classes, g_reflection_cache_ready, reflection_epoch, held_member, hash_find, meta_lookup>>

lockvars == <<lock_x, lock_done, lock_pc>>

condvars == <<cond_values, cond, cond_chains, cond_macros, cond_diag, cond_last>>

macvars == <<macros_, mac_line, mac_stack, active_macros, mac_out, mac_pc>>

incvars == <<inc_chain, inc_closed, inc_stack, inc_depth, inc_pc, inc_diag, inc_processed>>

hirvars == <<next_exception_region_id_, hir_function>>

symvars == <<sym_program, sym_tables, sym_pc>>

frontvars == <<semavars, prevars, ifvars, lanevars, switchvars, reflvars, lockvars, condvars, macvars, incvars, hirvars, symvars>>

vars == <<jitvars, tryvars, replvars, frontvars>>

\* ------------------------------------------------ symbols and IR modules

\* LinkerMangledName: prepend the data layout's global prefix, if any
LinkerMangledName(symbol_name, prefix) ==
  IF prefix = "" THEN symbol_name ELSE prefix \o symbol_name

\* names registered by RegisterRuntimeSymbols in the runtime dylib
RuntimeSymbolNames ==
  {"hc_runtime_abi_version", "hc_print_str", "hc_put_char", "hc_print_fmt",
   "hc_try_push", "hc_try_pop", "hc_throw_i64", "hc_exception_payload",
   "hc_exception_active", "hc_try_depth", "hc_register_reflection_table",
   "hc_reflection_field_count", "hc_reflection_fields", "hc_malloc",
   "hc_free", "hc_memcpy", "hc_memset", "CallStkGrow", "Spawn", "JobQue",
   "JobResGet", "HashFind", "MemberMetaData", "MemberMetaFind",
   "hc_task_spawn"}

RegisterRuntimeSymbols(prefix) ==
  {LinkerMangledName(s, prefix) : s \in RuntimeSymbolNames}

kHostSymbolAllowlist == {"_setjmp", "setjmp", "__sigsetjmp"}

AllowedHostResolverSymbols_AllowAll(prefix) ==
  {LinkerMangledName(s, prefix) :
     s \in kHostSymbolAllowlist \cup {"puts", "malloc"}}

AllowedHostResolverSymbols(prefix) ==
  {LinkerMangledName(s, prefix) : s \in kHostSymbolAllowlist}

\* symbols the host process exports (what dlsym on the process can find)
HostProcessSymbols ==
  kHostSymbolAllowlist \cup {"puts", "malloc"} \cup RuntimeSymbolNames

\* DynamicLibrarySearchGenerator::GetForCurrentProcess(prefix, Allow):
\* a mangled name is served iff Allow accepts it and the process has it
HostGeneratorFinds(mangled, prefix) ==
  /\ mangled \in AllowedHostResolverSymbols(prefix)
  /\ \E h \in HostProcessSymbols : LinkerMangledName(h, prefix) = mangled

\* the runtime dylib: absolute runtime symbols plus the host generator
RuntimeDylibFinds(mangled, prefix) ==
  \/ mangled \in RegisterRuntimeSymbols(prefix)
  \/ HostGeneratorFinds(mangled, prefix)

\* IR texts handed to the backend, by what the backend looks at:
\* parses/verifies, defined symbols, referenced externals, presence of the
\* entry function (named "main" here)
IrTexts ==
  { [ok |-> TRUE,  defs |-> {"Foo", "main"}, refs |-> {}],
    [ok |-> TRUE,  defs |-> {"main"},        refs |-> {"Foo", "hc_print_str"}],
    [ok |-> TRUE,  defs |-> {"main"},        refs |-> {"puts"}],
    [ok |-> TRUE,  defs |-> {"Foo", "main"}, refs |-> {"_setjmp"}],
    [ok |-> FALSE, defs |-> {},              refs |-> {}] }

\* the IR of programs that only use the threaded runtime helpers
SpawnIrTexts ==
  { [ok |-> TRUE,  defs |-> {"main"}, refs |-> {"Spawn", "JobQue", "JobResGet"}],
    [ok |-> FALSE, defs |-> {},       refs |-> {}] }

\* "" and "__default__" name the same session
SessionNames == {"", "__default__"}

SessionKey(session_name) ==
  IF session_name = "" THEN "__default__" ELSE session_name

SessionKeys == {SessionKey(n) : n \in SessionNames}

NoSession == [present |-> FALSE]

\* id of the runtime dylib in a link order (module dylibs are 1, 2, ...)
RuntimeDylib == 0

\* ------------------------------------------------------- link and lookup

RECURSIVE ReverseSeq(_)
ReverseSeq(s) == IF s = <<>> THEN <<>> ELSE Append(ReverseSeq(Tail(s)), Head(s))

\* BuildModuleLinkOrder iterating module_dylibs forward instead of rbegin..rend
BuildModuleLinkOrder_Forward(state) ==
  [i \in 1..Len(state.module_dylibs) |-> state.module_dylibs[i].id]
    \o <<RuntimeDylib>>

\* BuildModuleLinkOrder: installed module dylibs most recent first, then
\* the runtime dylib
BuildModuleLinkOrder(state) ==
  ReverseSeq([i \in 1..Len(state.module_dylibs) |-> state.module_dylibs[i].id])
    \o <<RuntimeDylib>>

\* the module dylib with a given id in a session
DylibById(state, id) ==
  CHOOSE m \in {state.module_dylibs[i] : i \in 1..Len(state.module_dylibs)} :
    m.id = id

\* does dylib `id` define the mangled symbol
DylibDefines(state, id, mangled, prefix) ==
  IF id = RuntimeDylib
    THEN RuntimeDylibFinds(mangled, prefix)
    ELSE mangled \in DylibById(state, id).defs

\* JITDylib search: the first dylib of the order that defines the symbol,
\* or -1 when no dylib does
RECURSIVE SearchOrder(_, _, _, _)
SearchOrder(state, order, mangled, prefix) ==
  IF order = <<>> THEN -1
  ELSE IF DylibDefines(state, Head(order), mangled, prefix) THEN Head(order)
  ELSE SearchOrder(state, Tail(order), mangled, prefix)

\* a module dylib searches itself first (setLinkOrder's default), then its
\* link order
ResolveSymbol(state, m, mangled, prefix) ==
  IF mangled \in m.defs THEN m.id
  ELSE SearchOrder(state, m.link_order, mangled, prefix)

\* materialising module m succeeds iff every reference resolves, and every
\* module it resolves into materialises
RECURSIVE Materializes(_, _, _)
Materializes(state, m, prefix) ==
  \A r \in m.refs :
    LET d == ResolveSymbol(state, m, r, prefix) IN
      /\ d # -1
      /\ (d # RuntimeDylib /\ d # m.id) =>
            Materializes(state, DylibById(state, d), prefix)

\* --------------------------------------------------------------- runtime

MarkSpawnStart_NoCount(n) == n

MarkSpawnStart(n) == n + 1

MarkSpawnDone(n) == IF n > 0 THEN n - 1 ELSE n

ThreadIds == 1..MaxThreads

FreeThread == [kind |-> "free", pc |-> "unused"]

NoJob == [state |-> "none", result |-> 0, joined |-> 0, ran |-> FALSE, got |-> 0]

\* executors of program code: 0 is main_fn on the driver thread
Executors == {0} \cup ThreadIds

Executing(e) ==
  IF e = 0 THEN drv = "main" ELSE thr[e].kind # "free" /\ thr[e].pc = "run"

InSpawn(e) ==
  IF e = 0 THEN drv = "main_spawning"
  ELSE thr[e].kind # "free" /\ thr[e].pc = "spawning"

\* hc_spawn_wait_all leaves its loop when the counter is not positive
SpawnWaitAllReturns(n) == ~(n > 0)

\* pthread_join(job->thread) returns once the worker thread has terminated
JoinReturns_NoJoin(worker_pc) == TRUE

JoinReturns(worker_pc) == worker_pc = "done"

\* ------------------------------------------------------- backend (pure)

EmptySession ==
  [present |-> TRUE, module_dylibs |-> <<>>, next_module_id |-> 0,
   next_entry_id |-> 0]

\* InitializeJitSessionState can fail; an existing session is reused
GetOrCreateJitSession(s, fault) ==
  IF s.present THEN [ok |-> TRUE, state |-> s]
  ELSE IF fault = "session" THEN [ok |-> FALSE, state |-> NoSession]
  ELSE [ok |-> TRUE, state |-> EmptySession]

MangleAll(names, prefix) == {LinkerMangledName(n, prefix) : n \in names}

\* AddModuleToJitSession: a fresh dylib "__holyc_module_<id>", its link
\* order, addIRModule, then push_back on module_dylibs
AddModuleToJitSession(state, defs, refs, fault, prefix) ==
  LET st1 == [state EXCEPT !.next_module_id = @ + 1]
      m   == [id         |-> st1.next_module_id,
              defs       |-> MangleAll(defs, prefix),
              refs       |-> MangleAll(refs, prefix),
              link_order |-> BuildModuleLinkOrder(st1)]
  IN IF fault = "addir"
       THEN [ok |-> FALSE, state |-> st1, module |-> m]
       ELSE [ok |-> TRUE,
             state  |-> [st1 EXCEPT !.module_dylibs = Append(@, m)],
             module |-> m]

\* LoadIrJit: session, parse+verify, optimize, add (nothing is looked up)
LoadIrJit(s, ir, fault, prefix) ==
  LET session == GetOrCreateJitSession(s, fault) IN
  IF ~session.ok THEN [ok |-> FALSE, state |-> s]
  ELSE IF ~ir.ok \/ fault = "optimize" THEN [ok |-> FALSE, state |-> session.state]
  ELSE LET add == AddModuleToJitSession(session.state, ir.defs, ir.refs, fault, prefix)
       IN [ok |-> add.ok, state |-> add.state]

EntrySymbol(n) == "__holyc_entry_" \o ToString(n)

EntryTargetSymbol(n) == "__holyc_entry_target_" \o ToString(n)

\* ExecuteIrJit from GetOrCreateJitSession up to the lookup of the entry
\* wrapper; ok means main_fn is about to be called
ExecuteIrJitPrepare(s, ir, entry_symbol_name, fault, prefix) ==
  LET session == GetOrCreateJitSession(s, fault) IN
  IF ~session.ok THEN [ok |-> FALSE, state |-> s]
  ELSE IF ~ir.ok \/ fault = "optimize" THEN [ok |-> FALSE, state |-> session.state]
  ELSE IF entry_symbol_name = "" THEN [ok |-> FALSE, state |-> session.state]
  ELSE IF entry_symbol_name \notin ir.defs THEN [ok |-> FALSE, state |-> session.state]
  ELSE
    LET st1  == [session.state EXCEPT !.next_entry_id = @ + 1]
        defs == (ir.defs \ {entry_symbol_name})
                  \cup {EntryTargetSymbol(st1.next_entry_id),
                        EntrySymbol(st1.next_entry_id)}
    IN IF fault = "wrapper" THEN [ok |-> FALSE, state |-> st1]
       ELSE
         LET add == AddModuleToJitSession(st1, defs, ir.refs, fault, prefix) IN
         IF ~add.ok THEN [ok |-> FALSE, state |-> add.state]
         ELSE [ok    |-> Materializes(add.state, add.module, prefix),
               state |-> add.state]

Faults == {"none", "session", "optimize", "wrapper", "addir"}

EntryNames == {"main", ""}

NoCall == [op |-> "none", key |-> "__default__", reset |-> FALSE]

NoResult == [ok |-> TRUE, op |-> "none"]

\* the session can take one more module within the model's bound
Room(key) ==
  sessions[key].present =>
    /\ sessions[key].next_module_id < MaxModules
    /\ sessions[key].next_entry_id < MaxModules

\* ------------------------------------------------------------- try/catch

\* nullptr in the frame list
NullFrame == 0

\* a try statement is named by its region id, which is also its frame: the
\* frame is one entry-block alloca per try statement
Frames == 1..MaxFrames

\* the position outside every try statement of the function
Root == <<NullFrame, "root">>

Positions == {Root} \cup (Frames \X {"try", "catch"})

\* payloads of the throw statements
Payloads == {7}

RECURSIVE PositionChain(_, _)
\* the positions enclosing p, outermost first, p itself last
PositionChain(parent, p) ==
  IF p = Root THEN <<Root>>
  ELSE Append(PositionChain(parent, parent[p[1]]), p)

Enclosing(parent, p) ==
  LET chain == PositionChain(parent, p) IN {chain[i] : i \in 1..Len(chain)}

\* where the try statement that gets the region id after g can stand: region
\* ids are handed out in order of appearance, try body before catch body
OpenPositions(parent, g) ==
  LET outer == Enclosing(parent, parent[g])
  IN {<<g, "try">>, <<g, "catch">>} \cup outer
       \cup {<<q[1], "catch">> : q \in {c \in outer : c[2] = "try"}}

\* the nestings of MaxFrames try statements the lowering can number
TryPrograms ==
  {parent \in [Frames -> Positions] :
     \A f \in Frames :
       IF f = 1 THEN parent[f] = Root
       ELSE /\ parent[f][1] < f
            /\ \A g \in 1..(f - 1) : parent[g][1] < g
            /\ parent[f] \in OpenPositions(parent, f - 1)}

RECURSIVE ExceptionRegionId(_, _)
\* exception_region_id of a throw statement at position p: the top of the
\* region stack, -1 when it is empty
ExceptionRegionId(parent, p) ==
  IF p = Root THEN -1
  ELSE IF p[2] = "try" THEN p[1]
  ELSE ExceptionRegionId(parent, parent[p[1]])

hc_try_push(frame, stack, prev) ==
  IF frame = NullFrame THEN [stack |-> stack, prev |-> prev]
  ELSE [stack |-> frame, prev |-> [prev EXCEPT ![frame] = stack]]

RECURSIVE TryPopWalk(_, _, _, _, _)
\* the while loop of hc_try_pop; it visits at most MaxFrames frames unless the
\* list is a cycle, and then it never ends
TryPopWalk(frame, before, cur, prev, fuel) ==
  IF cur = NullFrame THEN [prev |-> prev, returns |-> TRUE]
  ELSE IF cur = frame
    THEN [prev |-> [prev EXCEPT ![before] = prev[cur]], returns |-> TRUE]
  ELSE IF fuel = 0 THEN [prev |-> prev, returns |-> FALSE]
  ELSE TryPopWalk(frame, cur, prev[cur], prev, fuel - 1)

hc_try_pop(frame, stack, prev) ==
  IF frame = NullFrame \/ stack = NullFrame
    THEN [stack |-> stack, prev |-> prev, returns |-> TRUE]
  ELSE IF stack = frame
    THEN [stack |-> prev[frame], prev |-> prev, returns |-> TRUE]
  ELSE LET walk == TryPopWalk(frame, stack, prev[stack], prev, MaxFrames)
       IN [stack |-> stack, prev |-> walk.prev, returns |-> walk.returns]

\* the thread is at the start of a function whose try statements nest as
\* one of the given programs; nothing has been pushed or thrown
TryStart(programs) ==
  /\ try_parent \in programs
  /\ try_pos = Root
  /\ g_try_stack = NullFrame
  /\ frame_prev = [f \in Frames |-> NullFrame]
  /\ g_exception_payload = 0
  /\ try_pc = "run"
  /\ try_live = {}

\* control reaches try statement f: push the frame, _setjmp returns 0, the
\* try body starts
EmitTryCatchStmt(f) ==
  /\ try_pc = "run"
  /\ try_pos = try_parent[f]
  /\ LET pushed == hc_try_push(f, g_try_stack, frame_prev)
     IN /\ g_try_stack' = pushed.stack
        /\ frame_prev' = pushed.prev
  /\ try_pos' = <<f, "try">>
  /\ try_live' = try_live \cup {f}
  /\ UNCHANGED <<try_parent, g_exception_payload, try_pc>>

\* the try body of f runs to its end: hc_try_pop, then the join block
TryBodyEnd(f) ==
  /\ try_pc = "run"
  /\ try_pos = <<f, "try">>
  /\ LET popped == hc_try_pop(f, g_try_stack, frame_prev)
     IN /\ g_try_stack' = popped.stack
        /\ frame_prev' = popped.prev
        /\ try_pc' = IF popped.returns THEN "run" ELSE "hung"
        /\ try_pos' = IF popped.returns THEN try_parent[f] ELSE try_pos
        /\ try_live' = IF popped.returns THEN try_live \ {f} ELSE try_live
  /\ UNCHANGED <<try_parent, g_exception_payload>>

\* the catch body of f runs to its end: branch to the join block
CatchBodyEnd(f) ==
  /\ try_pc = "run"
  /\ try_pos = <<f, "catch">>
  /\ try_pos' = try_parent[f]
  /\ UNCHANGED <<try_parent, g_try_stack, frame_prev, g_exception_payload, try_pc, try_live>>

\* a break or goto whose target is outside the try or catch body it stands in:
\* a plain branch, no runtime call
EmitGotoStmt(target) ==
  /\ try_pc = "run"
  /\ target # try_pos
  /\ target \in Enclosing(try_parent, try_pos)
  /\ try_pos' = target
  /\ UNCHANGED <<try_parent, g_try_stack, frame_prev, g_exception_payload, try_pc, try_live>>

\* hc_try_depth does not return: the list it walks is a cycle
NeverReturns == -1

RECURSIVE TryDepthWalk(_, _, _)
\* the for loop of hc_try_depth; a list of more than MaxFrames frames is a cycle
TryDepthWalk(cur, prev, depth) ==
  IF cur = NullFrame THEN depth
  ELSE IF depth = MaxFrames THEN NeverReturns
  ELSE TryDepthWalk(prev[cur], prev, depth + 1)

hc_try_depth(stack, prev) == TryDepthWalk(stack, prev, 0)

hc_exception_active(stack) == IF stack # NullFrame THEN 1 ELSE 0

\* a throw statement: hc_throw_i64 longjmps to the frame on top of the list,
\* whose _setjmp then returns 1, or aborts when the list is empty
hc_throw_i64(payload) ==
  /\ try_pc = "run"
  /\ g_exception_payload' = payload
  /\ IF g_try_stack # NullFrame
       THEN /\ g_try_stack' = frame_prev[g_try_stack]
            /\ try_pos' = <<g_try_stack, "catch">>
            /\ try_live' = try_live \ {g_try_stack}
            /\ UNCHANGED try_pc
       ELSE /\ try_pc' = "aborted"
            /\ UNCHANGED <<g_try_stack, try_pos, try_live>>
  /\ UNCHANGED <<try_parent, frame_prev>>

\* ------------------------------------------------------ backend actions

JitInit(prefixes, keys) ==
  /\ global_prefix \in prefixes
  /\ sessions = [k \in keys |-> NoSession]
  /\ g_spawn_inflight = 0
  /\ g_next_task_id = 1
  /\ thr = [t \in ThreadIds |-> FreeThread]
  /\ jobs = [t \in ThreadIds |-> NoJob]
  /\ drv = "idle"
  /\ call = NoCall
  /\ result = NoResult

\* the mutated erase: the session stays in the map
Erase_Nothing(key) == sessions

\* JitSessions().erase(key)
Erase(key) == [sessions EXCEPT ![key] = NoSession]

\* the driver calls LoadIrJit(ir, session_name)
LoadEnter ==
  /\ drv = "idle"
  /\ \E n \in SessionNames :
       /\ Room(SessionKey(n))
       /\ call' = [op |-> "load", key |-> SessionKey(n), reset |-> FALSE]
  /\ drv' = "load"
  /\ UNCHANGED <<global_prefix, g_next_task_id, sessions, g_spawn_inflight, thr, jobs, result>>

LoadReturn(irs) ==
  /\ drv = "load"
  /\ \E ir \in irs, f \in Faults :
       LET r == LoadIrJit(sessions[call.key], ir, f, global_prefix) IN
         /\ sessions' = [sessions EXCEPT ![call.key] = r.state]
         /\ result' = [ok |-> r.ok, op |-> "load"]
  /\ drv' = "idle"
  /\ call' = NoCall
  /\ UNCHANGED <<global_prefix, g_next_task_id, g_spawn_inflight, thr, jobs>>

\* the driver calls ExecuteIrJit; with reset_after_run the session stored
\* under the key is erased first
ExecEnter ==
  /\ drv = "idle"
  /\ \E n \in SessionNames, rst \in BOOLEAN :
       /\ rst \/ Room(SessionKey(n))
       /\ call' = [op |-> "exec", key |-> SessionKey(n), reset |-> rst]
       /\ sessions' = IF rst THEN Erase(SessionKey(n)) ELSE sessions
  /\ drv' = "exec"
  /\ UNCHANGED <<global_prefix, g_next_task_id, g_spawn_inflight, thr, jobs, result>>

\* session, parse, optimize, entry wrapper, add, lookup: every failure
\* returns from here (erasing again under reset_after_run)
ExecPrepare(irs) ==
  /\ drv = "exec"
  /\ \E ir \in irs, f \in Faults, en \in EntryNames :
       LET r == ExecuteIrJitPrepare(sessions[call.key], ir, en, f, global_prefix) IN
         IF r.ok
           THEN /\ sessions' = [sessions EXCEPT ![call.key] = r.state]
                /\ drv' = "main"
                /\ UNCHANGED <<result, call>>
           ELSE /\ sessions' = [sessions EXCEPT ![call.key] =
                                  IF call.reset THEN NoSession ELSE r.state]
                /\ drv' = "idle"
                /\ call' = NoCall
                /\ result' = [ok |-> FALSE, op |-> "exec"]
  /\ UNCHANGED <<global_prefix, g_next_task_id, g_spawn_inflight, thr, jobs>>

\* main_fn returns to ExecuteIrJit, which calls hc_spawn_wait_all
MainReturn ==
  /\ drv = "main"
  /\ drv' = "wait"
  /\ UNCHANGED <<global_prefix, g_next_task_id, sessions, g_spawn_inflight, thr, jobs, call, result>>

ExecWaitAll ==
  /\ drv = "wait"
  /\ SpawnWaitAllReturns(g_spawn_inflight)
  /\ drv' = "finish"
  /\ UNCHANGED <<global_prefix, g_next_task_id, sessions, g_spawn_inflight, thr, jobs, call, result>>

ExecReturn ==
  /\ drv = "finish"
  /\ sessions' = IF call.reset THEN Erase(call.key) ELSE sessions
  /\ result' = [ok |-> TRUE, op |-> "exec"]
  /\ drv' = "idle"
  /\ call' = NoCall
  /\ UNCHANGED <<global_prefix, g_next_task_id, g_spawn_inflight, thr, jobs>>

\* ResetJitSession: hc_spawn_wait_all, then erase
ResetEnter ==
  /\ drv = "idle"
  /\ \E n \in SessionNames :
       call' = [op |-> "reset", key |-> SessionKey(n), reset |-> FALSE]
  /\ drv' = "reset_wait"
  /\ UNCHANGED <<global_prefix, g_next_task_id, sessions, g_spawn_inflight, thr, jobs, result>>

ResetWaitAll ==
  /\ drv = "reset_wait"
  /\ SpawnWaitAllReturns(g_spawn_inflight)
  /\ drv' = "reset_erase"
  /\ UNCHANGED <<global_prefix, g_next_task_id, sessions, g_spawn_inflight, thr, jobs, call, result>>

ResetReturn ==
  /\ drv = "reset_erase"
  /\ sessions' = Erase(call.key)
  /\ result' = [ok |-> TRUE, op |-> "reset"]
  /\ drv' = "idle"
  /\ call' = NoCall
  /\ UNCHANGED <<global_prefix, g_next_task_id, g_spawn_inflight, thr, jobs>>

\* ------------------------------------------------------ runtime actions

SetPc(e, pc, drvpc) ==
  IF e = 0 THEN /\ drv' = drvpc
                /\ thr' = thr
  ELSE /\ thr' = [thr EXCEPT ![e].pc = pc]
       /\ drv' = drv

\* the slot a newly created thread takes
HasFreeThread == \E t \in ThreadIds : thr[t].kind = "free"

NewThread == CHOOSE t \in ThreadIds :
               /\ thr[t].kind = "free"
               /\ \A u \in ThreadIds : thr[u].kind = "free" => t <= u

\* Spawn up to and including MarkSpawnStart
SpawnMark(e) ==
  /\ Executing(e)
  /\ HasFreeThread
  /\ g_next_task_id <= MaxTasks
  /\ g_spawn_inflight' = MarkSpawnStart(g_spawn_inflight)
  /\ SetPc(e, "spawning", "main_spawning")
  /\ UNCHANGED <<global_prefix, g_next_task_id, sessions, jobs, call, result>>

\* pthread_create succeeded: a detached thread runs SpawnThreadMain
SpawnCreate(e) ==
  /\ InSpawn(e)
  /\ HasFreeThread
  /\ IF e = 0
       THEN /\ thr' = [thr EXCEPT ![NewThread] = [kind |-> "task", pc |-> "run"]]
            /\ drv' = "main"
       ELSE /\ thr' = [thr EXCEPT ![NewThread] = [kind |-> "task", pc |-> "run"],
                                  ![e].pc = "run"]
            /\ drv' = drv
  /\ g_next_task_id' = g_next_task_id + 1
  /\ UNCHANGED <<global_prefix, sessions, g_spawn_inflight, jobs, call, result>>

\* pthread_create failed: free(req), MarkSpawnDone, return nullptr
SpawnCreateFails(e) ==
  /\ InSpawn(e)
  /\ g_spawn_inflight' = MarkSpawnDone(g_spawn_inflight)
  /\ SetPc(e, "run", "main")
  /\ UNCHANGED <<global_prefix, g_next_task_id, sessions, jobs, call, result>>

\* SpawnThreadMain: fn(data) has returned; free(req); MarkSpawnDone
SpawnThreadMain(t) ==
  /\ thr[t].kind = "task"
  /\ thr[t].pc = "run"
  /\ thr' = [thr EXCEPT ![t] = FreeThread]
  /\ g_spawn_inflight' = MarkSpawnDone(g_spawn_inflight)
  /\ UNCHANGED <<global_prefix, g_next_task_id, sessions, jobs, drv, call, result>>

\* JobQue: calloc the handle, pthread_create a joinable worker
JobQue(e) ==
  /\ Executing(e)
  /\ HasFreeThread
  /\ thr' = [thr EXCEPT ![NewThread] = [kind |-> "job", pc |-> "run"]]
  /\ jobs' = [jobs EXCEPT ![NewThread] = [state |-> "live", result |-> 0,
                                          joined |-> 0, ran |-> FALSE, got |-> 0]]
  /\ UNCHANGED <<global_prefix, g_next_task_id, sessions, g_spawn_inflight, drv, call, result>>

\* JobThreadMain: fn(job->arg); job->result = 0; the thread terminates
JobThreadMain(t) ==
  /\ thr[t].kind = "job"
  /\ thr[t].pc = "run"
  /\ thr' = [thr EXCEPT ![t].pc = "done"]
  /\ jobs' = [jobs EXCEPT ![t].result = 0, ![t].ran = TRUE]
  /\ UNCHANGED <<global_prefix, g_next_task_id, sessions, g_spawn_inflight, drv, call, result>>

\* JobResGet on a live handle: join, read job->result, free the handle
JobResGet(e, j) ==
  /\ Executing(e)
  /\ e # j
  /\ jobs[j].state = "live"
  /\ JoinReturns(thr[j].pc)
  /\ jobs' = [jobs EXCEPT ![j].state = "freed", ![j].joined = 1,
                          ![j].got = jobs[j].result]
  /\ thr' = [thr EXCEPT ![j] = FreeThread]
  /\ UNCHANGED <<global_prefix, g_next_task_id, sessions, g_spawn_inflight, drv, call, result>>

\* ------------------------------------------------------------------ REPL

\* RunRepl's session when --jit-session is not given
ReplSession == "__repl__"

Range(s) == {s[i] : i \in 1..Len(s)}

\* a ParsedNode; its text is the token sequence the parser joined with " "
Node(kind, text, children) == [kind |-> kind, text |-> text, children |-> children]

HasModifier(decl_text, modifier) == modifier \in Range(decl_text)

FirstToken(text) == IF text = <<>> THEN "" ELSE Head(text)

FindChildrenByKind(node, kind) == SelectSeq(node.children, LAMBDA c : c.kind = kind)

\* one parameter of a prototype: its text and, when present and not empty,
\* " = " and the default expression
ParamText(param) ==
  LET defaults == FindChildrenByKind(param, "Default")
  IN IF defaults # <<>> /\ Head(defaults).text # <<>>
       THEN param.text \o <<"=">> \o Head(defaults).text
       ELSE param.text

RECURSIVE JoinParams(_)
JoinParams(params) ==
  IF params = <<>> THEN <<>>
  ELSE IF Len(params) = 1 THEN ParamText(Head(params))
  ELSE ParamText(Head(params)) \o <<",">> \o JoinParams(Tail(params))

BuildFunctionPrototype(fn) ==
  LET lists == FindChildrenByKind(fn, "ParamList")
      params == IF lists = <<>> THEN <<>> ELSE FindChildrenByKind(Head(lists), "Param")
  IN fn.text \o <<"(">> \o JoinParams(params) \o <<")", ";">>

LinkageKeywords == {"extern", "import", "_extern", "_import", "export", "_export"}

BuildExternVarDecl(var_decl) ==
  LET decl == var_decl.text
  IN IF decl = <<>> THEN <<>>
     ELSE IF HasModifier(decl, "static") THEN <<>>
     ELSE IF FirstToken(decl) \in LinkageKeywords THEN decl \o <<";">>
     ELSE <<"extern">> \o decl \o <<";">>

BuildTypeAliasDecl(alias_decl) ==
  IF alias_decl.text = <<>> THEN <<>>
  ELSE <<"typedef">> \o alias_decl.text \o <<";">>

BuildLinkageDecl(linkage_decl) ==
  IF linkage_decl.children = <<>> THEN <<>>
  ELSE IF Head(linkage_decl.children).text = <<>> THEN <<>>
  ELSE linkage_decl.text \o Head(linkage_decl.children).text \o <<";">>

RECURSIVE RenderClassBody(_)
\* the body items of a class: fields and type aliases; trailing variable
\* declarations are not part of the rendered class
RenderClassBody(children) ==
  IF children = <<>> THEN <<>>
  ELSE LET child == Head(children)
           item == IF child.kind = "FieldDecl" THEN child.text \o <<";">>
                   ELSE IF child.kind = "TypeAliasDecl" THEN BuildTypeAliasDecl(child)
                   ELSE <<>>
       IN item \o RenderClassBody(Tail(children))

RenderClassDecl(class_decl) ==
  IF \A c \in Range(class_decl.children) : c.kind = "VarDecl"
    THEN class_decl.text \o <<";">>
    ELSE class_decl.text \o <<"{">> \o RenderClassBody(class_decl.children)
           \o <<"}", ";">>

IsDeclarationTopLevelKind(kind) ==
  kind \in {"FunctionDecl", "VarDecl", "VarDeclList", "TypeAliasDecl", "ClassDecl",
            "LinkageDecl", "StartLabel", "EndLabel"}

ClassifyCell(program) ==
  LET stmts == {c \in Range(program.children) : c.kind # "EmptyStmt"}
      has_declaration == \E c \in stmts : IsDeclarationTopLevelKind(c.kind)
      has_executable == \E c \in stmts : ~IsDeclarationTopLevelKind(c.kind)
  IN IF ~has_declaration /\ ~has_executable THEN "kEmpty"
     ELSE IF has_declaration /\ has_executable THEN "kMixed"
     ELSE IF has_declaration THEN "kDeclaration" ELSE "kExecutable"

\* DeclCatalog: each list keeps first occurrences in insertion order (the
\* *_set_ members are the ranges of the lists)
EmptyCatalog ==
  [type_decls_ |-> <<>>, class_decls_ |-> <<>>, linkage_decls_ |-> <<>>,
   function_protos_ |-> <<>>, global_decls_ |-> <<>>]

AddDecl(list, decl) ==
  IF decl = <<>> THEN list
  ELSE IF decl \in Range(list) THEN list
  ELSE Append(list, decl)

AddTypeDecl(catalog, decl) == [catalog EXCEPT !.type_decls_ = AddDecl(@, decl)]

AddClassDecl(catalog, decl) == [catalog EXCEPT !.class_decls_ = AddDecl(@, decl)]

AddLinkageDecl(catalog, decl) == [catalog EXCEPT !.linkage_decls_ = AddDecl(@, decl)]

AddFunctionProto(catalog, decl) == [catalog EXCEPT !.function_protos_ = AddDecl(@, decl)]

AddGlobalDecl(catalog, decl) == [catalog EXCEPT !.global_decls_ = AddDecl(@, decl)]

\* the prelude text, one declaration per line
BuildPrelude(catalog) ==
  catalog.type_decls_ \o catalog.class_decls_ \o catalog.linkage_decls_
    \o catalog.function_protos_ \o catalog.global_decls_

RECURSIVE AddGlobalDecls(_, _)
\* the loops over the VarDecl children of a class or of a VarDeclList
AddGlobalDecls(catalog, nodes) ==
  IF nodes = <<>> THEN catalog
  ELSE AddGlobalDecls(
         IF Head(nodes).kind = "VarDecl"
           THEN AddGlobalDecl(catalog, BuildExternVarDecl(Head(nodes)))
           ELSE catalog,
         Tail(nodes))

IndexChild(catalog, child) ==
  IF child.kind = "TypeAliasDecl" THEN AddTypeDecl(catalog, BuildTypeAliasDecl(child))
  ELSE IF child.kind = "ClassDecl"
    THEN AddGlobalDecls(AddClassDecl(catalog, RenderClassDecl(child)), child.children)
  ELSE IF child.kind = "LinkageDecl" THEN AddLinkageDecl(catalog, BuildLinkageDecl(child))
  ELSE IF child.kind = "FunctionDecl"
    THEN IF ~HasModifier(child.text, "static")
           THEN AddFunctionProto(catalog, BuildFunctionPrototype(child))
           ELSE catalog
  ELSE IF child.kind = "VarDecl" THEN AddGlobalDecl(catalog, BuildExternVarDecl(child))
  ELSE IF child.kind = "VarDeclList" THEN AddGlobalDecls(catalog, child.children)
  ELSE catalog

RECURSIVE IndexChildren(_, _)
IndexChildren(catalog, children) ==
  IF children = <<>> THEN catalog
  ELSE IndexChildren(IndexChild(catalog, Head(children)), Tail(children))

\* the mutated indexer records nothing
IndexDeclarations_Nothing(catalog, program) == catalog

IndexDeclarations(catalog, program) == IndexChildren(catalog, program.children)

\* ---- the frontend, as far as a cell's fate depends on it

\* the name a declaration of the prelude introduces when the unit is parsed
DeclaredName(decl) ==
  IF Head(decl) = "typedef" THEN decl[Len(decl) - 1]
  ELSE IF Head(decl) \in {"class", "union"} THEN decl[2]
  ELSE IF "(" \in Range(decl)
    THEN decl[(CHOOSE i \in 1..Len(decl) :
                 decl[i] = "(" /\ \A j \in 1..(i - 1) : decl[j] # "(") - 1]
  ELSE decl[Len(decl) - 1]

\* the name a top-level declaration node introduces
NodeName(node) == node.text[Len(node.text)]

RECURSIVE Identifiers(_)
\* the identifiers the expressions below a node refer to
Identifiers(node) ==
  (IF node.kind = "Identifier" THEN {NodeName(node)} ELSE {})
    \cup UNION {Identifiers(node.children[i]) : i \in 1..Len(node.children)}

\* the variable declarations of a program, those inside lists and the
\* trailing ones of classes included
VarDecls(program) ==
  {c \in Range(program.children) : c.kind = "VarDecl"}
    \cup UNION {{v \in Range(c.children) : v.kind = "VarDecl"} :
                  c \in {d \in Range(program.children) :
                           d.kind \in {"VarDeclList", "ClassDecl"}}}

HasBody(fn) == \E c \in Range(fn.children) : c.kind = "Block"

FunctionDecls(program) == {c \in Range(program.children) : c.kind = "FunctionDecl"}

\* EmitLlvmIr of the unit "prelude, cell" (a declaration cell), or of the unit
\* "prelude, I64 entry() { cell }" (an executable cell): sema rejects an
\* identifier nothing declares; the module defines the functions with a body
\* and the variables, static ones with internal linkage, and refers to what
\* it uses and does not define
EmitLlvmIr(prelude, program, entry_function_name) ==
  LET declared == {DeclaredName(d) : d \in Range(prelude)}
                    \cup {NodeName(f) : f \in FunctionDecls(program)}
                    \cup {NodeName(v) : v \in VarDecls(program)}
      defined == {f \in FunctionDecls(program) : HasBody(f)}
                   \cup {v \in VarDecls(program) :
                           FirstToken(v.text) \notin LinkageKeywords}
      exported == {NodeName(d) : d \in {e \in defined : ~HasModifier(e.text, "static")}}
      used == Identifiers(program)
  IN IF \E id \in used : id \notin declared
       THEN [ok |-> FALSE, defs |-> {}, refs |-> {}]
       ELSE [ok |-> TRUE,
             defs |-> exported \cup
                        (IF entry_function_name = "" THEN {} ELSE {entry_function_name}),
             refs |-> used \ {NodeName(d) : d \in defined}]

\* ---- the texts a user can type

FnAdd ==
  Node("FunctionDecl", <<"I64", "Add">>,
       <<Node("ParamList", <<>>,
              <<Node("Param", <<"I64", "a">>, <<>>),
                Node("Param", <<"I64", "b">>, <<Node("Default", <<"1">>, <<>>)>>)>>),
         Node("Block", <<>>, <<>>)>>)

FnHelper ==
  Node("FunctionDecl", <<"static", "I64", "Helper">>,
       <<Node("ParamList", <<>>, <<>>), Node("Block", <<>>, <<>>)>>)

FnPuts ==
  Node("FunctionDecl", <<"I64", "puts">>,
       <<Node("ParamList", <<>>, <<Node("Param", <<"U8", "*", "s">>, <<>>)>>)>>)

VarList ==
  Node("VarDeclList", <<>>,
       <<Node("VarDecl", <<"I64", "g">>, <<>>),
         Node("VarDecl", <<"static", "I64", "s">>, <<>>)>>)

TypeT == Node("TypeAliasDecl", <<"I64", "T">>, <<>>)

ClassC ==
  Node("ClassDecl", <<"class", "C">>,
       <<Node("FieldDecl", <<"I64", "x">>, <<>>), Node("VarDecl", <<"C", "c0">>, <<>>)>>)

LinkE == Node("LinkageDecl", <<"extern">>, <<Node("DeclSpec", <<"I64", "e">>, <<>>)>>)

CallOf(name) == Node("ExprStmt", <<>>, <<Node("Identifier", <<name>>, <<>>)>>)

Program(children) == Node("Program", <<>>, children)

\* what ParseAst makes of the source text a user can type: a parse error, or
\* the program
CellUnparsable == [parse_ok |-> FALSE, program |-> Program(<<>>)]

CellFunctions == [parse_ok |-> TRUE, program |-> Program(<<FnAdd, FnPuts>>)]

CellMixed == [parse_ok |-> TRUE, program |-> Program(<<FnAdd, CallOf("Add")>>)]

Cells ==
  { CellUnparsable, CellFunctions, CellMixed,
    [parse_ok |-> TRUE, program |-> Program(<<Node("EmptyStmt", <<>>, <<>>)>>)],
    [parse_ok |-> TRUE, program |-> Program(<<FnHelper, VarList, TypeT, ClassC, LinkE>>)],
    [parse_ok |-> TRUE, program |-> Program(<<CallOf("Add")>>)],
    [parse_ok |-> TRUE, program |-> Program(<<CallOf("puts"), CallOf("puts")>>)] }

\* the cells typed over several lines, and the files given to ":load"
LongCells == {CellUnparsable, CellFunctions}

\* an input line: blank, a ":" command, text that leaves a lexical scope
\* open ("I64 Add(I64 a, I64 b=1) {"), or text that closes the open scope, if
\* any, and reads as one of the cells
BlankLine == [kind |-> "blank", name |-> "", cell |-> CellUnparsable]

OpenLine == [kind |-> "open", name |-> "", cell |-> CellUnparsable]

Command(name) == [kind |-> "cmd", name |-> name, cell |-> CellUnparsable]

TextLine(c) == [kind |-> "text", name |-> "", cell |-> c]

\* ":load PATH" with the contents of the file
LoadCommand(c) == [kind |-> "cmd", name |-> ":load", cell |-> c]

\* the lines typed while an input is pending or after ":{"
SourceLines == {BlankLine, OpenLine, Command(":}")} \cup {TextLine(c) : c \in LongCells}

Lines ==
  SourceLines \cup {TextLine(c) : c \in Cells}
    \cup {Command(":{"), Command(":reset"), Command(":help")}
    \cup {LoadCommand(c) : c \in LongCells}

\* TrimCopy(text).empty()
IsBlankText(text) == \A l \in Range(text) : l.kind = "blank"

RECURSIVE OpenScopes(_)
\* the lexical scopes a text leaves open
OpenScopes(text) ==
  IF text = <<>> THEN 0
  ELSE LET before == OpenScopes(SubSeq(text, 1, Len(text) - 1))
           last == text[Len(text)]
       IN IF last.kind = "open" THEN before + 1
          ELSE IF last.kind = "text" /\ before > 0 THEN before - 1
          ELSE before

HasUnclosedLexicalScope(text) == OpenScopes(text) > 0

RECURSIVE ProgramChildren(_)
ProgramChildren(text) ==
  IF text = <<>> THEN <<>>
  ELSE (IF Head(text).kind = "text" THEN Head(text).cell.program.children ELSE <<>>)
         \o ProgramChildren(Tail(text))

\* RunPreprocessor and ParseAst of a text: they throw on an open scope, on a
\* ":" line in the text and on a line that does not parse
ParseAst(text) ==
  IF \/ HasUnclosedLexicalScope(text)
     \/ \E l \in Range(text) : l.kind = "cmd"
     \/ \E l \in Range(text) : l.kind = "text" /\ ~l.cell.parse_ok
    THEN [ok |-> FALSE, program |-> Program(<<>>)]
    ELSE [ok |-> TRUE, program |-> Program(ProgramChildren(text))]

AnalyzeInputReadiness(source) ==
  LET written == SelectSeq(source, LAMBDA l : l.kind # "blank")
  IN IF IsBlankText(source) THEN "kEmpty"
     ELSE IF HasUnclosedLexicalScope(source) THEN "kIncomplete"
     ELSE IF written[Len(written)].kind = "cmd" THEN "kIncomplete"
     ELSE IF ParseAst(source).ok THEN "kComplete"
     ELSE "kInvalid"

\* ---- ReplEngine

ReplEntryFunctionName(cell_id) == "__holyc_repl_exec_" \o ToString(cell_id + 1)

CellReturn(ok, phase, engine) == [ok |-> ok, phase |-> phase, engine |-> engine]

\* the mutated declaration path indexes the cell before it is loaded
ProcessDeclarationCell_IndexFirst(engine, program, fault, prefix) ==
  LET ir_result == EmitLlvmIr(BuildPrelude(engine.catalog), program, "")
      indexed == [engine EXCEPT !.catalog = IndexDeclarations(@, program),
                                !.cell_id = @ + 1]
  IN IF ~ir_result.ok THEN CellReturn(FALSE, "emit", indexed)
     ELSE LET load_result == LoadIrJit(engine.session, ir_result, fault, prefix)
          IN CellReturn(load_result.ok, IF load_result.ok THEN "declared" ELSE "load",
                        [indexed EXCEPT !.session = load_result.state])

\* ProcessCell for kind == CellKind::kDeclaration
ProcessDeclarationCell(engine, program, fault, prefix) ==
  LET ir_result == EmitLlvmIr(BuildPrelude(engine.catalog), program, "")
  IN IF ~ir_result.ok THEN CellReturn(FALSE, "emit", engine)
     ELSE LET load_result == LoadIrJit(engine.session, ir_result, fault, prefix)
              loaded == [engine EXCEPT !.session = load_result.state]
          IN IF ~load_result.ok THEN CellReturn(FALSE, "load", loaded)
             ELSE CellReturn(TRUE, "declared",
                             [loaded EXCEPT !.catalog = IndexDeclarations(@, program),
                                            !.cell_id = @ + 1])

\* ProcessCell for an executable cell: the cell is wrapped in the entry
\* function; ExecuteIrJit with reset_after_run = false runs it and waits for
\* the tasks in flight, of which a cell of this model starts none
ProcessExecutableCell(engine, program, fault, prefix) ==
  LET entry_function_name == ReplEntryFunctionName(engine.cell_id)
      ir_result == EmitLlvmIr(BuildPrelude(engine.catalog), program, entry_function_name)
  IN IF ~ir_result.ok THEN CellReturn(FALSE, "emit", engine)
     ELSE LET jit_result == ExecuteIrJitPrepare(engine.session, ir_result,
                                                entry_function_name, fault, prefix)
              ran == [engine EXCEPT !.session = jit_result.state]
          IN IF ~jit_result.ok THEN CellReturn(FALSE, "execute", ran)
             ELSE CellReturn(TRUE, "executed", [ran EXCEPT !.cell_id = @ + 1])

ProcessCell(engine, cell_text, fault, prefix) ==
  IF IsBlankText(cell_text) THEN CellReturn(TRUE, "blank", engine)
  ELSE LET parsed == ParseAst(cell_text) IN
    IF ~parsed.ok THEN CellReturn(FALSE, "parse", engine)
    ELSE LET kind == ClassifyCell(parsed.program) IN
      IF kind = "kEmpty" THEN CellReturn(TRUE, "empty", engine)
      ELSE IF kind = "kMixed" THEN CellReturn(FALSE, "mixed", engine)
      ELSE IF kind = "kDeclaration"
        THEN ProcessDeclarationCell(engine, parsed.program, fault, prefix)
      ELSE ProcessExecutableCell(engine, parsed.program, fault, prefix)

\* ReplEngine::Reset: ResetJitSession erases the session and returns ok
Reset(engine) ==
  CellReturn(TRUE, "reset", [catalog |-> EmptyCatalog, cell_id |-> 0, session |-> NoSession])

\* ---- RunRepl

NoSubmit == [submit |-> FALSE, text |-> <<>>]

\* the text this iteration of the read loop hands to ProcessCell, if any
CellSubmitted(line) ==
  IF explicit_multiline
    THEN IF line = Command(":}")
           THEN [submit |-> TRUE, text |-> explicit_multiline_buffer]
           ELSE NoSubmit
  ELSE IF pending_input = <<>> /\ line.kind = "cmd"
    THEN IF line.name = ":load"
           THEN [submit |-> TRUE, text |-> <<TextLine(line.cell)>>]
           ELSE NoSubmit
  ELSE IF line.kind = "blank" /\ pending_input = <<>> THEN NoSubmit
  ELSE IF AnalyzeInputReadiness(Append(pending_input, line)) \in {"kComplete", "kInvalid"}
    THEN [submit |-> TRUE, text |-> Append(pending_input, line)]
  ELSE NoSubmit

NotProcessed == [ran |-> FALSE, ok |-> TRUE, phase |-> "none"]

\* no REPL is running
ReplStart ==
  /\ catalog_ = EmptyCatalog
  /\ cell_id_ = 0
  /\ pending_input = <<>>
  /\ explicit_multiline = FALSE
  /\ explicit_multiline_buffer = <<>>
  /\ processed = NotProcessed

\* one iteration of RunRepl's read loop: the line read, and the fault the
\* backend meets if the line makes it run
RunRepl(line, fault) ==
  LET key == SessionKey(ReplSession)
      engine == [catalog |-> catalog_, cell_id |-> cell_id_, session |-> sessions[key]]
      command == ~explicit_multiline /\ pending_input = <<>> /\ line.kind = "cmd"
  IN /\ (explicit_multiline \/ pending_input # <<>>) => line \in SourceLines
     /\ explicit_multiline' =
          IF explicit_multiline THEN line # Command(":}")
          ELSE command /\ line.name = ":{"
     /\ explicit_multiline_buffer' =
          IF explicit_multiline /\ line # Command(":}")
            THEN Append(explicit_multiline_buffer, line)
            ELSE <<>>
     /\ Len(explicit_multiline_buffer') <= MaxLines
     /\ pending_input' =
          IF explicit_multiline \/ command THEN pending_input
          ELSE IF line.kind = "blank" /\ pending_input = <<>> THEN pending_input
          ELSE IF AnalyzeInputReadiness(Append(pending_input, line)) = "kIncomplete"
            THEN Append(pending_input, line)
          ELSE <<>>
     /\ Len(pending_input') <= MaxLines
     /\ \E sub \in {CellSubmitted(line)} :
          /\ sub.submit => Room(key)
          /\ ~sub.submit => fault = "none"
          /\ \E done \in {IF sub.submit
                             THEN ProcessCell(engine, sub.text, fault, global_prefix)
                           ELSE IF command /\ line.name = ":reset" THEN Reset(engine)
                           ELSE CellReturn(TRUE, "none", engine)} :
               /\ catalog_' = done.engine.catalog
               /\ cell_id_' = done.engine.cell_id
               /\ sessions' = [sessions EXCEPT ![key] = done.engine.session]
               /\ processed' = [ran |-> sub.submit, ok |-> done.ok, phase |-> done.phase]

\* ------------------------------------------------------------ sema: functions

\* the statements a function body is assembled from; every expression is the
\* literal 1, and the only label and the only goto target is L
Statements ==
  LET one == Node("Literal", <<"1">>, <<>>)
      block(children) == Node("Block", <<>>, children)
      goto == Node("GotoStmt", <<"L">>, <<>>)
      brk == Node("BreakStmt", <<>>, <<>>)
      label == Node("LabelStmt", <<"L">>, <<Node("EmptyStmt", <<>>, <<>>)>>)
      decl(name, init) ==
        Node("VarDecl", <<"I64", name>>,
             <<Node("DeclType", <<"I64">>, <<>>), Node("DeclName", <<name>>, <<>>)>> \o init)
  IN {goto, brk, label, decl("x", <<one>>), decl("y", <<>>),
      block(<<goto>>), block(<<brk>>), block(<<label>>), block(<<decl("x", <<one>>)>>),
      Node("WhileStmt", <<>>, <<one, brk>>),
      Node("WhileStmt", <<>>, <<one, block(<<brk>>)>>),
      Node("IfStmt", <<>>, <<one, brk>>),
      Node("SwitchStmt", <<>>,
           <<one, block(<<Node("CaseClause", <<>>, <<one, brk>>)>>)>>)}

\* ParseBlock: the body of a function, a Block of at most MaxStmts statements
FunctionBodies ==
  {Node("Block", <<>>, body) : body \in UNION {[1..n -> Statements] : n \in 0..MaxStmts}}

IsStatementNodeKind(kind) ==
  \/ kind \in {"VarDecl", "VarDeclList", "Block", "CaseClause", "DefaultClause", "LabelStmt",
               "TypeAliasDecl", "LinkageDecl", "ClassDecl", "EmptyStmt"}
  \/ kind \in {"GotoStmt", "BreakStmt", "WhileStmt", "IfStmt", "SwitchStmt"}  \* ends in "Stmt"

\* the children of a VarDecl that are neither its type nor its name
FindVarInitializer(node) ==
  SelectSeq(node.children, LAMBDA c : c.kind \notin {"DeclType", "DeclName"})

\* ParseTypedNameFromNode, the name half
DeclName(node) == FindChildrenByKind(node, "DeclName")[1].text[1]

\* Error: the diagnostic a semantic error throws, and the two results without one
SemaError(msg, arg) == [code |-> "HC3001", message |-> <<"semantic error: ", msg, arg>>]

Accepted == [code |-> "", message |-> <<>>]

NotAnalyzed == [code |-> "pending", message |-> <<>>]

RECURSIVE CollectLabels(_)
\* the labels below a node, in the order CollectLabels inserts them
CollectLabels(node) ==
  LET RECURSIVE Below(_)
      Below(i) == IF i > Len(node.children) THEN <<>>
                  ELSE CollectLabels(node.children[i]) \o Below(i + 1)
  IN (IF node.kind = "LabelStmt" THEN <<node.text[1]>> ELSE <<>>) \o Below(1)

\* label_positions_, goto_infos_, init_decl_infos_ and next_index before the walk
NoGotoInfo ==
  [next_index |-> 0, label_positions_ |-> <<>>, goto_infos_ |-> <<>>, init_decl_infos_ |-> <<>>]

RECURSIVE CollectGotoLegalityInfo(_, _, _)
CollectGotoLegalityInfo(node, depth, info) ==
  LET RECURSIVE Children(_, _, _)
      Children(i, d, acc) ==
        IF i > Len(node.children) THEN acc
        ELSE Children(i + 1, d, CollectGotoLegalityInfo(node.children[i], d, acc))
      is_stmt == IsStatementNodeKind(node.kind)
      this_index == IF is_stmt THEN info.next_index ELSE -1
      here == [target |-> node.text, index |-> this_index, depth |-> depth]
      counted == [info EXCEPT !.next_index = IF is_stmt THEN @ + 1 ELSE @]
      noted ==
        IF node.kind = "LabelStmt"
          THEN [counted EXCEPT !.label_positions_ =
                  [l \in (DOMAIN @) \cup {node.text} |-> IF l = node.text THEN here ELSE @[l]]]
        ELSE IF node.kind = "GotoStmt"
          THEN [counted EXCEPT !.goto_infos_ = Append(@, here)]
        ELSE IF node.kind = "VarDecl" /\ FindVarInitializer(node) # <<>>
          THEN [counted EXCEPT !.init_decl_infos_ =
                  Append(@, [here EXCEPT !.target = <<DeclName(node)>>])]
        ELSE counted
  IN IF node.kind = "Block" THEN Children(1, depth + 1, info)
     ELSE Children(1, depth, noted)

\* a mutation of ValidateGotoLegality: only declarations at the depth of the
\* goto count as jumped over
ValidateGotoLegality_SameDepth(info) ==
  LET crossed(g) ==
        SelectSeq(info.init_decl_infos_,
                  LAMBDA init : /\ init.depth = g.depth
                                /\ init.index > g.index
                                /\ init.index < info.label_positions_[g.target].index)
      illegal == SelectSeq(info.goto_infos_,
                           LAMBDA g : /\ g.target \in DOMAIN info.label_positions_
                                      /\ \/ info.label_positions_[g.target].depth > g.depth
                                         \/ crossed(g) # <<>>)
  IN IF illegal = <<>> THEN Accepted
     ELSE IF info.label_positions_[illegal[1].target].depth > illegal[1].depth
       THEN SemaError("goto jumps into deeper scope: ", illegal[1].target[1])
     ELSE SemaError("goto jumps across initialized declaration: ", crossed(illegal[1])[1].target[1])

\* the first Error ValidateGotoLegality throws, or Accepted
ValidateGotoLegality(info) ==
  LET crossed(g) ==
        SelectSeq(info.init_decl_infos_,
                  LAMBDA init : /\ init.index > g.index
                                /\ init.index < info.label_positions_[g.target].index)
      illegal == SelectSeq(info.goto_infos_,
                           LAMBDA g : /\ g.target \in DOMAIN info.label_positions_
                                      /\ \/ info.label_positions_[g.target].depth > g.depth
                                         \/ crossed(g) # <<>>)
  IN IF illegal = <<>> THEN Accepted
     ELSE IF info.label_positions_[illegal[1].target].depth > illegal[1].depth
       THEN SemaError("goto jumps into deeper scope: ", illegal[1].target[1])
     ELSE SemaError("goto jumps across initialized declaration: ", crossed(illegal[1])[1].target[1])

RECURSIVE AnalyzeStatement(_, _)
\* the first Error below a statement, given the names declared in the innermost
\* scope; every expression of Statements is a literal, which AnalyzeExpr accepts
AnalyzeStatement(node, scope) ==
  LET ok == [diag |-> Accepted, scope |-> scope]
      RECURSIVE Each(_, _)
      Each(i, acc) ==
        IF i > Len(node.children) \/ acc.diag # Accepted THEN acc
        ELSE IF node.kind = "CaseClause" /\ ~IsStatementNodeKind(node.children[i].kind)
          THEN Each(i + 1, acc)
        ELSE Each(i + 1, AnalyzeStatement(node.children[i], acc.scope))
  IN CASE node.kind = "Block" ->
            [diag |-> Each(1, [diag |-> Accepted, scope |-> {}]).diag, scope |-> scope]
       [] node.kind = "VarDecl" ->
            IF DeclName(node) \in scope
              THEN [diag |-> SemaError("duplicate declaration: ", DeclName(node)), scope |-> scope]
            ELSE [diag |-> Accepted, scope |-> scope \cup {DeclName(node)}]
       [] node.kind \in {"IfStmt", "WhileStmt", "SwitchStmt"} -> Each(2, ok)
       [] node.kind \in {"CaseClause", "LabelStmt"} -> Each(1, ok)
       [] OTHER -> ok

\* AnalyzeFunction, from CollectLabels on: the first Error, or Accepted
AnalyzeFunction(body) ==
  LET labels == CollectLabels(body)
      info == CollectGotoLegalityInfo(body, 0, NoGotoInfo)
      stmts == AnalyzeStatement(body, {}).diag
      missing == SelectSeq(info.goto_infos_, LAMBDA g : g.target[1] \notin Range(labels))
  IN IF \E i, j \in 1..Len(labels) : i < j /\ labels[i] = labels[j]
       THEN SemaError("duplicate label in function: ",
                      labels[CHOOSE j \in 1..Len(labels) : \E i \in 1..(j - 1) : labels[i] = labels[j]])
     ELSE IF stmts # Accepted THEN stmts
     ELSE IF missing # <<>>
       THEN SemaError("goto target label not found in function: ", missing[1].target[1])
     ELSE ValidateGotoLegality(info)

\* the function sema is about to analyze
SemaStart(bodies) ==
  /\ fn_body \in bodies
  /\ sema_diag = NotAnalyzed

\* AnalyzeTopLevel on a FunctionDecl
AnalyzeTopLevel ==
  /\ sema_diag = NotAnalyzed
  /\ sema_diag' = AnalyzeFunction(fn_body)
  /\ UNCHANGED fn_body

\* --------------------------------------------------------------- preprocessor

\* A source text is a sequence of pieces: an identifier, a space, a newline, a
\* '#' or a string literal; its bytes are the pieces' texts one after another.
\* A path is its components with the '/' between them.
Piece(t, v) == [t |-> t, v |-> v]

\* the bytes of a piece sequence
Bytes(pieces) ==
  LET RECURSIVE Flat(_)
      Flat(i) ==
        IF i > Len(pieces) THEN <<>>
        ELSE (IF pieces[i].t = "str" THEN <<"\"">> \o pieces[i].v \o <<"\"">>
              ELSE pieces[i].v) \o Flat(i + 1)
  IN Flat(1)

\* the pieces the main file is written with: x, ' ', '\n', __LINE__, '#',
\* include and "b.hc"
SourcePieces ==
  {Piece("id", <<"x">>), Piece("sp", <<" ">>), Piece("nl", <<"\n">>),
   Piece("id", <<"__LINE__">>), Piece("hash", <<"#">>), Piece("id", <<"include">>),
   Piece("str", <<"b.hc">>)}

\* the main file: at most MaxPieces pieces
Sources == UNION {[1..n -> SourcePieces] : n \in 0..MaxPieces}

\* what b.hc may hold
IncludedSources ==
  {<<>>,
   <<Piece("id", <<"x">>)>>,
   <<Piece("id", <<"__LINE__">>), Piece("nl", <<"\n">>)>>,
   <<Piece("hash", <<"#">>), Piece("id", <<"include">>), Piece("sp", <<" ">>),
     Piece("str", <<"a.hc">>), Piece("nl", <<"\n">>)>>}

\* the directory the preprocessor runs in, and how its file may be named
WorkingDirectory == <<"/", "w">>

FileNames == {<<"a.hc">>, <<"/", "w", "/", "a.hc">>}

DirName(path) ==
  LET slashes == {i \in 1..Len(path) : path[i] = "/"}
      slash == CHOOSE i \in slashes : \A j \in slashes : j <= i
  IN IF slashes = {} THEN <<".">>
     ELSE IF slash = 1 THEN <<"/">>
     ELSE SubSeq(path, 1, slash - 1)

JoinPath(base, leaf) ==
  IF leaf = <<>> THEN base
  ELSE IF leaf[1] = "/" THEN leaf
  ELSE IF base = <<>> \/ base = <<".">> THEN leaf
  ELSE IF base[Len(base)] = "/" THEN base \o leaf
  ELSE base \o <<"/">> \o leaf

\* a mutation of CanonicalPath: the path as it was given
CanonicalPath_AsGiven(path) == path

\* std::filesystem::weakly_canonical: absolute, without "." components
CanonicalPath(path) ==
  LET absolute == IF path # <<>> /\ path[1] = "/" THEN path
                  ELSE WorkingDirectory \o <<"/">> \o path
      RECURSIVE Clean(_)
      Clean(i) ==
        IF i > Len(absolute) THEN <<>>
        ELSE IF absolute[i] = "." /\ i < Len(absolute) THEN Clean(i + 2)
        ELSE <<absolute[i]>> \o Clean(i + 1)
  IN Clean(1)

\* the text a diagnostic is thrown with
FormatDiagnostic(diag) ==
  <<"error", "[", diag.code, "]", ": ">>
    \o (IF diag.file # <<>>
          THEN diag.file \o (IF diag.line > 0 THEN <<":", ToString(diag.line), ":", "1">>
                             ELSE <<>>) \o <<": ">>
        ELSE <<>>)
    \o diag.message
    \o (IF diag.remediation # <<>> THEN <<"\nhelp: ">> \o diag.remediation ELSE <<>>)

\* Fail: what Process returns when a diagnostic is thrown
Fail(code, file, line, message, remediation) ==
  [code |-> code,
   text |-> FormatDiagnostic([code |-> code, file |-> file, line |-> line,
                              message |-> message, remediation |-> remediation])]

\* std::getline: the lines of a source, without their newlines
GetLines(source) ==
  LET RECURSIVE Split(_, _)
      Split(i, line) ==
        IF i > Len(source) THEN (IF line = <<>> THEN <<>> ELSE <<line>>)
        ELSE IF source[i].t = "nl" THEN <<line>> \o Split(i + 1, <<>>)
        ELSE Split(i + 1, Append(line, source[i]))
  IN Split(1, <<>>)

LTrim(line) ==
  LET RECURSIVE Drop(_)
      Drop(i) == IF i > Len(line) THEN <<>>
                 ELSE IF line[i].t = "sp" THEN Drop(i + 1)
                 ELSE SubSeq(line, i, Len(line))
  IN Drop(1)

\* a mutation of ExpandText: __LINE__ inside a longer identifier is expanded too
ExpandText_EveryLine(text, line_no) ==
  Bytes([i \in 1..Len(text) |->
           IF text[i] = Piece("id", <<"__LINE__">>) THEN Piece("id", <<ToString(line_no)>>)
           ELSE text[i]])

\* ExpandText without macros: an identifier is a longest run of identifier
\* pieces, and only the identifier __LINE__ is replaced (by the line number);
\* string literals are copied
ExpandText(text, line_no) ==
  LET ident(i) == i \in 1..Len(text) /\ text[i].t = "id"
  IN Bytes([i \in 1..Len(text) |->
              IF text[i] = Piece("id", <<"__LINE__">>) /\ ~ident(i - 1) /\ ~ident(i + 1)
                THEN Piece("id", <<ToString(line_no)>>)
              ELSE text[i]])

RECURSIVE ProcessFile(_, _, _, _, _)
\* ProcessFile with HandleDirective; fs maps the canonical path of a file to
\* what it holds.  The result has the code and text of the diagnostic thrown,
\* or no code and the output.
ProcessFile(source, file, depth, include_stack, fs) ==
  LET lines == GetLines(source)
      HandleDirective(line, line_no) ==
        LET after == LTrim(Tail(line))
            spaces == {i \in 1..Len(after) : after[i].t = "sp"}
            word_end == IF spaces = {} THEN Len(after)
                        ELSE (CHOOSE i \in spaces : \A j \in spaces : i <= j) - 1
            directive == Bytes(SubSeq(after, 1, word_end))
            rest == SubSeq(after, word_end + 1, Len(after))
            quoted == {i \in 1..Len(rest) : rest[i].t = "str"}
            first == CHOOSE i \in quoted : \A j \in quoted : i <= j
            last == CHOOSE i \in quoted : \A j \in quoted : j <= i
            between == Bytes(SubSeq(rest, first, last))
            target == SubSeq(between, 2, Len(between) - 1)
            include_path == JoinPath(DirName(file), target)
            canonical_include == CanonicalPath(include_path)
            on_stack == {i \in 1..Len(include_stack) : include_stack[i] = canonical_include}
            cycle == CHOOSE i \in on_stack : \A j \in on_stack : i <= j
            RECURSIVE Trace(_)
            Trace(i) == IF i > Len(include_stack) THEN <<" -> ">> \o canonical_include
                        ELSE (IF i # cycle THEN <<" -> ">> ELSE <<>>)
                               \o include_stack[i] \o Trace(i + 1)
        IN IF directive # <<"include">>
             THEN Fail("HC1009", file, line_no, <<"unsupported directive #">> \o directive, <<>>)
           ELSE IF quoted = {}
             THEN Fail("HC1022", file, line_no, <<"#include", " expects quoted path">>,
                       <<"use ", "#include", " \"relative/path\"">>)
           ELSE IF canonical_include \notin DOMAIN fs
             THEN Fail("HC1007", file, line_no, <<"include not found: ">> \o target,
                       <<"searched include roots in order:", " ">> \o DirName(file))
           ELSE IF on_stack # {}
             THEN Fail("HC1023", file, line_no, <<"include cycle detected: ">> \o target,
                       Trace(cycle))
           ELSE ProcessFile(fs[canonical_include], include_path, depth + 1,
                            Append(include_stack, canonical_include), fs)
      RECURSIVE Loop(_, _)
      Loop(line_no, out) ==
        IF line_no > Len(lines) THEN [code |-> "", text |-> out]
        ELSE IF LTrim(lines[line_no]) # <<>> /\ LTrim(lines[line_no])[1].t = "hash"
          THEN LET handled == HandleDirective(LTrim(lines[line_no]), line_no)
               IN IF handled.code # "" THEN handled
                  ELSE Loop(line_no + 1, out \o handled.text)
        ELSE Loop(line_no + 1, out \o ExpandText(lines[line_no], line_no) \o <<"\n">>)
  IN IF depth > 64
       THEN Fail("HC1001", file, 1, <<"preprocessor include depth exceeded">>,
                 <<"reduce include nesting or break include cycles">>)
     ELSE Loop(1, <<>>)

\* Preprocessor::Process
Process(source, filename, fs) ==
  ProcessFile(source, filename, 0, <<CanonicalPath(filename)>>, fs)

\* nothing is preprocessed yet
NotPreprocessed == [code |-> "pending", text |-> <<>>]

\* the files in the working directory, the name the preprocessor is given for
\* a.hc, and no result yet
PreprocessorStart(sources, included, names) ==
  /\ pp_files \in {[a |-> s, b |-> t] : s \in sources, t \in included}
  /\ pp_filename \in names
  /\ pp_result = NotPreprocessed

\* the working directory as a map from canonical paths to contents
FileSystem(files) ==
  LET a == CanonicalPath(<<"a.hc">>)
      b == CanonicalPath(<<"b.hc">>)
  IN [p \in {a, b} |-> IF p = a THEN files.a ELSE files.b]

\* RunPreprocessor on a.hc
RunPreprocessor ==
  /\ pp_result = NotPreprocessed
  /\ pp_result' = Process(pp_files.a, pp_filename, FileSystem(pp_files))
  /\ UNCHANGED <<pp_files, pp_filename>>

\* ---------------------------------------------------------- #if expressions

\* An int64_t is its IntBits / 8 bytes, the lowest first.
IntBits == 64

\* the int64_t of a natural number below 2^31
Int64(n) == [k \in 1..(IntBits \div 8) |-> IF k <= 4 THEN (n \div (256 ^ (k - 1))) % 256 ELSE 0]

\* what a division that raises SIGFPE leaves: no value
Trap == <<>>

\* -9223372036854775808
Int64Min == [k \in 1..(IntBits \div 8) |-> IF k = IntBits \div 8 THEN 128 ELSE 0]

\* the arithmetic of the evaluator's operators on int64_t, as x86-64 and
\* AArch64 builds compute it: sums, differences, products and negations wrap,
\* a shift takes its count modulo 64, >> keeps the sign.  INT64_MIN / -1 and
\* INT64_MIN % -1 overflow: idiv raises SIGFPE (Trap), sdiv wraps.
Arith(op, a, b, idiv) ==
  LET top == IntBits \div 8
      sign(x) == x[top] >= 128
      RECURSIVE Carry(_, _, _)
      Carry(columns, k, carry) ==   \* the bytes of column sums
        IF k > top THEN <<>>
        ELSE <<(columns[k] + carry) % 256>> \o Carry(columns, k + 1, (columns[k] + carry) \div 256)
      add(x, y) == Carry([k \in 1..top |-> x[k] + y[k]], 1, 0)
      minus_one == [k \in 1..top |-> 255]
      neg(x) == add([k \in 1..top |-> 255 - x[k]], Int64(1))
      RECURSIVE Column(_, _, _, _)
      Column(x, y, k, i) == IF i > k THEN 0 ELSE x[i] * y[k + 1 - i] + Column(x, y, k, i + 1)
      mul(x, y) == Carry([k \in 1..top |-> Column(x, y, k, 1)], 1, 0)
      power(n) == [k \in 1..top |-> IF k = (n \div 8) + 1 THEN 2 ^ (n % 8) ELSE 0]
      byte(x, k) == IF k <= top THEN x[k] ELSE IF sign(x) THEN 255 ELSE 0
      sar(x, n) ==
        [k \in 1..top |->
           (byte(x, k + (n \div 8)) \div (2 ^ (n % 8)))
             + (byte(x, k + (n \div 8) + 1) % (2 ^ (n % 8))) * (2 ^ (8 - (n % 8)))]
      count(x) == x[1] % 64
      RECURSIVE BitsOf(_, _, _, _)
      BitsOf(f(_, _), p, q, i) ==
        IF i = 8 THEN 0
        ELSE (2 ^ i) * f((p \div (2 ^ i)) % 2, (q \div (2 ^ i)) % 2) + BitsOf(f, p, q, i + 1)
      bitwise(f(_, _), x, y) == [k \in 1..top |-> BitsOf(f, x[k], y[k], 0)]
      below(x, y) ==   \* unsigned x < y
        \E k \in 1..top : x[k] < y[k] /\ \A j \in (k + 1)..top : x[j] = y[j]
      less(x, y) == IF sign(x) # sign(y) THEN sign(x) ELSE below(x, y)
      magnitude(x) == IF sign(x) THEN neg(x) ELSE x
      bit(x, i) == (x[(i \div 8) + 1] \div (2 ^ (i % 8))) % 2
      DivideBit(n, d, i, done) ==   \* one step of unsigned long division
        LET shifted == add(add(done.remainder, done.remainder), Int64(bit(n, i)))
        IN IF below(shifted, d) THEN [quotient |-> done.quotient, remainder |-> shifted]
           ELSE [quotient |-> add(done.quotient, power(i)), remainder |-> add(shifted, neg(d))]
      RECURSIVE DivideBits(_, _, _, _, _)
      DivideBits(n, d, i, last, done) ==   \* the steps of bits i down to last
        IF i < last THEN done
        ELSE CHOOSE out \in {DivideBits(n, d, i - 1, last, step) : step \in {DivideBit(n, d, i, done)}} : TRUE
      RECURSIVE Divide(_, _, _, _)
      Divide(n, d, k, done) ==   \* the steps of byte k down to the first
        IF k = 0 THEN done
        ELSE CHOOSE out \in {Divide(n, d, k - 1, byte_done) :
                                byte_done \in {DivideBits(n, d, 8 * k - 1, 8 * k - 8, done)}} : TRUE
      division ==
        CHOOSE out \in {Divide(n, d, top, [quotient |-> Int64(0), remainder |-> Int64(0)]) :
                          n \in {magnitude(a)}, d \in {magnitude(b)}} : TRUE
      truth(p) == IF p THEN Int64(1) ELSE Int64(0)
  IN CASE op = "*" -> mul(a, b)
       [] op = "/" -> IF a = Int64Min /\ b = minus_one /\ idiv THEN Trap
                      ELSE IF sign(a) # sign(b) THEN neg(division.quotient)
                      ELSE division.quotient
       [] op = "%" -> IF a = Int64Min /\ b = minus_one /\ idiv THEN Trap
                      ELSE IF sign(a) THEN neg(division.remainder)
                      ELSE division.remainder
       [] op = "+" -> add(a, b)
       [] op = "-" -> add(a, neg(b))
       [] op = "<<" -> mul(a, power(count(b)))
       [] op = ">>" -> sar(a, count(b))
       [] op = "<" -> truth(less(a, b))
       [] op = ">" -> truth(less(b, a))
       [] op = "<=" -> truth(~less(b, a))
       [] op = ">=" -> truth(~less(a, b))
       [] op = "==" -> truth(a = b)
       [] op = "!=" -> truth(a # b)
       [] op = "&" -> bitwise(LAMBDA p, q : p * q, a, b)
       [] op = "^" -> bitwise(LAMBDA p, q : (p + q) % 2, a, b)
       [] op = "|" -> bitwise(LAMBDA p, q : p + q - p * q, a, b)
       [] op = "&&" -> truth(a # Int64(0) /\ b # Int64(0))
       [] op = "||" -> truth(a # Int64(0) \/ b # Int64(0))
       [] op = "!" -> truth(a = Int64(0))
       [] op = "~" -> [k \in 1..top |-> 255 - a[k]]
       [] op = "neg" -> neg(a)

\* the tokens of tokenize: a number is kept as its decimal digits
Tok(kind, text) == [kind |-> kind, text |-> text]

\* parse_number: strtoll of a decimal literal that fits an int64_t, nine
\* digits at a time
ParseNumber(digits) ==
  LET RECURSIVE Digits(_, _)
      Digits(from, to) ==
        IF from > to THEN 0 ELSE digits[from] * (10 ^ (to - from)) + Digits(from + 1, to)
      RECURSIVE Value(_)
      Value(to) ==
        IF to <= 0 THEN Int64(0)
        ELSE Arith("+", Arith("*", Value(to - 9), Int64(10 ^ 9), FALSE),
                   Int64(Digits(IF to > 9 THEN to - 8 ELSE 1, to)), FALSE)
  IN Value(Len(digits))

\* the operators each binary level of the parser matches, parse_logical_or first
BinaryLevels ==
  <<{"||"}, {"&&"}, {"|"}, {"^"}, {"&"}, {"==", "!="}, {"<", ">", "<=", ">="},
    {"<<", ">>"}, {"+", "-"}, {"*", "/", "%"}>>

RECURSIVE ParseLevel(_, _, _, _)
\* parse_logical_or .. parse_mul (levels 1 to 10), parse_unary and parse_primary
\* from the token at index: the value, the index after it and the failure, if any
ParseLevel(level, tokens, index, idiv) ==
  LET tok == tokens[index]
      Parsed(value, next) == [value |-> value, index |-> next, fail |-> ""]
      Failed(code) == [value |-> Int64(0), index |-> index, fail |-> code]
      RECURSIVE Loop(_)
      Loop(lhs) ==
        IF lhs.fail # "" THEN lhs
        ELSE IF tokens[lhs.index].kind = "op" /\ tokens[lhs.index].text \in BinaryLevels[level]
          THEN LET op == tokens[lhs.index].text
                   rhs == ParseLevel(level + 1, tokens, lhs.index + 1, idiv)
                   value == Arith(op, lhs.value, rhs.value, idiv)
               IN IF rhs.fail # "" THEN rhs
                  ELSE IF op \in {"/", "%"} /\ rhs.value = Int64(0) THEN Parsed(Int64(0), rhs.index)
                  ELSE IF value = Trap THEN [rhs EXCEPT !.fail = "SIGFPE"]
                  ELSE Loop(Parsed(value, rhs.index))
        ELSE lhs
      operand == ParseLevel(level, tokens, index + 1, idiv)
      inner == ParseLevel(1, tokens, index + 1, idiv)
  IN IF level <= Len(BinaryLevels) THEN Loop(ParseLevel(level + 1, tokens, index, idiv))
     ELSE IF level = Len(BinaryLevels) + 1
       THEN IF tok.kind = "op" /\ tok.text \in {"!", "+", "-", "~"}
              THEN IF operand.fail # "" \/ tok.text = "+" THEN operand
                   ELSE [operand EXCEPT
                           !.value = Arith(IF tok.text = "-" THEN "neg" ELSE tok.text,
                                           operand.value, Int64(0), idiv)]
            ELSE ParseLevel(level + 1, tokens, index, idiv)
     ELSE IF tok.kind = "lparen"
       THEN IF inner.fail # "" THEN inner
            ELSE IF tokens[inner.index].kind # "rparen" THEN Failed("HC1012")
            ELSE Parsed(inner.value, inner.index + 1)
     ELSE IF tok.kind = "number" THEN Parsed(ParseNumber(tok.text), index + 1)
     ELSE IF tok.kind = "identifier"
       THEN Parsed(IF tok.text \in {"TRUE", "true"} THEN Int64(1) ELSE Int64(0), index + 1)
     ELSE Failed("HC1016")

\* EvalIfExprValue on the tokens of an expression, no macro being defined
EvalIfExprValue(expr, idiv) ==
  LET tokens == Append(expr, Tok("end", ""))
      parsed == ParseLevel(1, tokens, 1, idiv)
  IN IF parsed.fail # "" THEN [value |-> Int64(0), fail |-> parsed.fail]
     ELSE IF tokens[parsed.index].kind # "end" THEN [value |-> Int64(0), fail |-> "HC1017"]
     ELSE [value |-> parsed.value, fail |-> ""]

\* the operands and operators the expressions are written with
Operands ==
  {<<Tok("number", digits)>> :
     digits \in {<<0>>, <<1>>, <<3>>, <<9, 2, 2, 3, 3, 7, 2, 0, 3, 6, 8, 5, 4, 7, 7, 5, 8, 0, 7>>}}

SignedOperands ==
  Operands \cup {<<Tok("op", sign)>> \o operand : sign \in {"-", "~", "!", "+"}, operand \in Operands}

BinaryOperators == {Tok("op", op) : op \in UNION Range(BinaryLevels)}

\* the expressions of #if lines: one or two operands with any operator, up
\* to MaxOperands operands with operators of different levels, two operands
\* with signs, one pair in parentheses, and malformed lines
Expressions ==
  LET chain(operands, operators) ==
        LET RECURSIVE Join(_)
            Join(i) == IF i = Len(operands) THEN operands[i]
                       ELSE operands[i] \o <<operators[i]>> \o Join(i + 1)
        IN Join(1)
      mixing == {Tok("op", op) : op \in {"*", "/", "-", "<<", "<", "||"}}
      grouping == {Tok("op", op) : op \in {"*", "-", "<<", "<"}}
      open == <<Tok("lparen", "(")>>
      close == <<Tok("rparen", ")")>>
  IN UNION {{chain(operands, operators) :
               operands \in [1..n -> Operands],
               operators \in [1..(n - 1) -> IF n <= 2 THEN BinaryOperators ELSE mixing]} :
            n \in 1..MaxOperands}
     \cup {a \o <<op>> \o b : a \in SignedOperands, b \in SignedOperands, op \in mixing}
     \cup {open \o a \o <<op1>> \o b \o close \o <<op2>> \o c :
             a \in Operands, b \in Operands, c \in Operands, op1 \in grouping, op2 \in grouping}
     \cup {a \o <<op1>> \o open \o b \o <<op2>> \o c \o close :
             a \in Operands, b \in Operands, c \in Operands, op1 \in grouping, op2 \in grouping}
     \cup UNION {{open \o a, a \o b, a \o <<op>>, a \o close} :
                   a \in Operands, b \in Operands, op \in grouping}

\* no #if line is evaluated yet
NotEvaluated == [value |-> Int64(0), fail |-> "pending"]

IfStart(expressions) ==
  /\ if_expr \in expressions
  /\ if_result = NotEvaluated

\* HandleDirective on "#if expr": EvalIfExpr, on a build whose division
\* instruction traps on overflow or on one whose does not
EvalIfExpr ==
  /\ if_result = NotEvaluated
  /\ \E idiv \in BOOLEAN : if_result' = EvalIfExprValue(if_expr, idiv)
  /\ UNCHANGED if_expr

\* ------------------------------------------------------------ lane access

\* An iN value of the emitted code is its N / 8 bytes, the lowest first.

\* ParseLaneInfo: the width and the signedness of a lane selector
ParseLaneInfo(lane_selector) ==
  CASE lane_selector \in {"i8", "u8"} -> [valid |-> TRUE, bits |-> 8, is_signed |-> lane_selector = "i8"]
    [] lane_selector \in {"i16", "u16"} -> [valid |-> TRUE, bits |-> 16, is_signed |-> lane_selector = "i16"]
    [] lane_selector \in {"i32", "u32"} -> [valid |-> TRUE, bits |-> 32, is_signed |-> lane_selector = "i32"]
    [] lane_selector \in {"i64", "u64"} -> [valid |-> TRUE, bits |-> 64, is_signed |-> lane_selector = "i64"]
    [] OTHER -> [valid |-> FALSE, bits |-> 0, is_signed |-> FALSE]

\* ParseIntegralBitWidth: the digits after the I or U of a type name
ParseIntegralBitWidth(holy_type) ==
  CASE holy_type \in {"I8", "U8"} -> 8
    [] holy_type \in {"I16", "U16"} -> 16
    [] holy_type \in {"I32", "U32"} -> 32
    [] OTHER -> 64

\* CastIntegerWithSignedness: SExt or ZExt to a wider type, Trunc to a narrower
CastIntegerWithSignedness(value, to_bits, signed_extend) ==
  IF Len(value) * 8 = to_bits THEN value
  ELSE IF Len(value) * 8 < to_bits
    THEN [k \in 1..(to_bits \div 8) |->
            IF k <= Len(value) THEN value[k]
            ELSE IF signed_extend /\ value[Len(value)] >= 128 THEN 255 ELSE 0]
  ELSE SubSeq(value, 1, to_bits \div 8)

\* CastIfNeeded between integer types: widening sign-extends
CastIfNeeded(value, to_bits) == CastIntegerWithSignedness(value, to_bits, TRUE)

\* the integer instructions the lane code emits, on values of one type; a
\* shift amount is below the width
LaneInstr(op, x, y) ==
  LET width == Len(x)
      byte(v, k) == IF k >= 1 /\ k <= width THEN v[k] ELSE 0
      RECURSIVE BitsOf(_, _, _, _)
      BitsOf(f(_, _), p, q, i) ==
        IF i = 8 THEN 0
        ELSE (2 ^ i) * f((p \div (2 ^ i)) % 2, (q \div (2 ^ i)) % 2) + BitsOf(f, p, q, i + 1)
  IN CASE op = "Shl" ->
            [k \in 1..width |->
               ((byte(x, k - (y \div 8)) * (2 ^ (y % 8))) % 256)
                 + (byte(x, k - (y \div 8) - 1) \div (2 ^ (8 - (y % 8))))]
       [] op = "LShr" ->
            [k \in 1..width |->
               (byte(x, k + (y \div 8)) \div (2 ^ (y % 8)))
                 + ((byte(x, k + (y \div 8) + 1) % (2 ^ (y % 8))) * (2 ^ (8 - (y % 8))))]
       [] op = "And" -> [k \in 1..width |-> BitsOf(LAMBDA p, q : p * q, x[k], y[k], 0)]
       [] op = "Or" -> [k \in 1..width |-> BitsOf(LAMBDA p, q : p + q - p * q, x[k], y[k], 0)]
       [] op = "Not" -> [k \in 1..width |-> 255 - x[k]]

\* raw_mask as a constant of the base type
LaneMask(lane_bits, base_bits) ==
  [k \in 1..(base_bits \div 8) |-> IF k <= lane_bits \div 8 THEN 255 ELSE 0]

\* StoreAssignable on a lane of a variable: the value stored back into the
\* variable of type base_type that holds base_value
StoreAssignable(lane_selector, base_type, base_value, index, rhs_value) ==
  LET lane == ParseLaneInfo(lane_selector)
      parsed_base_bits == ParseIntegralBitWidth(base_type)
      base_bits == IF lane.bits > parsed_base_bits THEN lane.bits ELSE parsed_base_bits
      base_int == CastIntegerWithSignedness(base_value, base_bits, TRUE)
      rhs_lane == CastIntegerWithSignedness(rhs_value, lane.bits, lane.is_signed)
      shift_amount == index * lane.bits
      shifted_mask == LaneInstr("Shl", LaneMask(lane.bits, base_bits), shift_amount)
      cleared_base == LaneInstr("And", base_int, LaneInstr("Not", shifted_mask, 0))
      rhs_base == CastIntegerWithSignedness(rhs_lane, base_bits, FALSE)
      shifted_rhs == LaneInstr("Shl", rhs_base, shift_amount)
      masked_rhs == LaneInstr("And", shifted_rhs, shifted_mask)
      updated_base == LaneInstr("Or", cleared_base, masked_rhs)
  IN CastIfNeeded(updated_base, Len(base_value) * 8)

\* EmitLaneLoad: the i64 a lane of the variable reads as
EmitLaneLoad(lane_selector, base_type, base_value, index) ==
  LET lane == ParseLaneInfo(lane_selector)
      parsed_base_bits == ParseIntegralBitWidth(base_type)
      base_bits == IF lane.bits > parsed_base_bits THEN lane.bits ELSE parsed_base_bits
      base_int == CastIntegerWithSignedness(base_value, base_bits, TRUE)
      shifted == LaneInstr("LShr", base_int, index * lane.bits)
      lane_bits_value == LaneInstr("And", shifted, LaneMask(lane.bits, base_bits))
  IN CastIntegerWithSignedness(CastIntegerWithSignedness(lane_bits_value, lane.bits, FALSE),
                               64, lane.is_signed)

\* the lane selectors and the integer types of variables
LaneSelectors == {"i8", "u8", "i16", "u16", "i32", "u32", "i64", "u64"}

IntegerTypes == {"I8", "U8", "I16", "U16", "I32", "U32", "I64", "U64"}

\* the values of a variable of a type: every byte 0x00, every byte 0xFF, or
\* the bytes 0xA5 0x5A ..
ValuesOf(holy_type) ==
  {[k \in 1..(ParseIntegralBitWidth(holy_type) \div 8) |-> byte] : byte \in {0, 200, 255}}
    \cup {[k \in 1..(ParseIntegralBitWidth(holy_type) \div 8) |-> IF k % 2 = 1 THEN 165 ELSE 90]}

\* AnalyzeExpr on a LaneExpr with a literal index: the lane is no wider than
\* the base and the index is below the lane count
LaneExprAccepted(lane_selector, base_type, index) ==
  LET lane_bits == ParseLaneInfo(lane_selector).bits
      base_bits == ParseIntegralBitWidth(base_type)
  IN /\ lane_bits <= base_bits
     /\ index >= 0
     /\ index < base_bits \div lane_bits

\* the statement v.lane[index] = x; with v and x variables, as sema accepts it
LaneAssignments ==
  {a \in [lane : LaneSelectors, base_type : IntegerTypes, index : 0..((IntBits \div 8) - 1),
          rhs_type : IntegerTypes] : LaneExprAccepted(a.lane, a.base_type, a.index)}

\* nothing is read from a lane yet
NotLoaded == <<>>

LaneStart(assignments, Values(_)) ==
  /\ lane_stmt \in assignments
  /\ lane_v \in Values(lane_stmt.base_type)
  /\ lane_x \in Values(lane_stmt.rhs_type)
  /\ lane_pc = "assign"
  /\ lane_out = NotLoaded

\* v.lane[index] = x;
EmitAssignExpr ==
  /\ lane_pc = "assign"
  /\ lane_v' = StoreAssignable(lane_stmt.lane, lane_stmt.base_type, lane_v, lane_stmt.index, lane_x)
  /\ lane_pc' = "load"
  /\ UNCHANGED <<lane_stmt, lane_x, lane_out>>

\* ... = v.lane[index];
EmitLaneExpr ==
  /\ lane_pc = "load"
  /\ lane_out' = EmitLaneLoad(lane_stmt.lane, lane_stmt.base_type, lane_v, lane_stmt.index)
  /\ lane_pc' = "done"
  /\ UNCHANGED <<lane_stmt, lane_v, lane_x>>

\* --------------------------------------------------------- switch lowering

\* the CaseClauses ParseCase builds: "case c:", "case:" (null-case) and
\* "case a...b:" (range-case), with the constants of their labels
CaseClauses ==
  {[text |-> "", labels |-> <<c>>] : c \in {0, 5}}
    \cup {[text |-> "null-case", labels |-> <<>>]}
    \cup {[text |-> "range-case", labels |-> <<5, 7>>]}

\* the Blocks of switch statements: at most MaxCases clauses
SwitchBlocks == UNION {[1..n -> CaseClauses] : n \in 0..MaxCases}

\* LowerStmt on a SwitchStmt: the flags, begin and end of every CaseClause
LowerStmt(block) ==
  LET flags(item) == IF item.text = "null-case" THEN 1
                     ELSE IF item.text = "range-case" THEN 2 ELSE 0
      begin(item) == IF flags(item) # 1 THEN item.labels[1] ELSE 0
      end(item) == IF flags(item) = 2 /\ Len(item.labels) > 1 THEN item.labels[2] ELSE begin(item)
  IN [switch_case_flags |-> [i \in 1..Len(block) |-> flags(block[i])],
      switch_case_begin |-> [i \in 1..Len(block) |-> begin(block[i])],
      switch_case_end |-> [i \in 1..Len(block) |-> end(block[i])]]

\* the mutated loop: a null-case continues after the last case that is not one
EmitSwitchStmt_LastNonNull(st) ==
  LET RECURSIVE Test(_, _)
      Test(i, last_case_end) ==
        IF i > Len(st.switch_case_flags) THEN <<>>
        ELSE LET flags == st.switch_case_flags[i]
                 begin == IF flags = 1 THEN last_case_end + 1 ELSE st.switch_case_begin[i]
                 end == IF flags = 2 THEN st.switch_case_end[i] ELSE begin
             IN <<[begin |-> begin, end |-> end]>>
                  \o Test(i + 1, IF flags = 1 THEN last_case_end ELSE end)
  IN Test(1, -1)

\* EmitSwitchStmt: the range each sw.test block compares the condition with
EmitSwitchStmt(st) ==
  LET RECURSIVE Test(_, _)
      Test(i, last_case_end) ==
        IF i > Len(st.switch_case_flags) THEN <<>>
        ELSE LET flags == st.switch_case_flags[i]
                 begin == IF flags = 1 THEN last_case_end + 1 ELSE st.switch_case_begin[i]
                 end == IF flags = 2 THEN st.switch_case_end[i] ELSE begin
             IN <<[begin |-> begin, end |-> end]>> \o Test(i + 1, end)
  IN Test(1, -1)

\* no switch is lowered or emitted yet
NotLowered == [switch_case_flags |-> <<>>, switch_case_begin |-> <<>>, switch_case_end |-> <<>>]

\* the statement lists the lowerer collects for the clauses: a body that runs
\* to its end or one that ends in break; a default that is absent or present
CaseBodies == {<<"ExprStmt">>, <<"BreakStmt">>}
DefaultBodies == {<<>>, <<"ExprStmt">>}

\* the values of the switch condition at run time
Scrutinees == -1..9

\* no bodies are lowered yet
NoBodies == [switch_case_bodies |-> <<>>, switch_default |-> <<>>]

\* the basic blocks of an emitted switch
EndBlock == [name |-> "sw.end", i |-> 0]
DefaultBlock == [name |-> "sw.default", i |-> 0]
TestBlock(i) == [name |-> "sw.test", i |-> i]
CaseBlock(i) == [name |-> "sw.case", i |-> i]

\* default_bb: sw.default when the default list is not empty, else sw.end
DefaultTarget(bodies) ==
  IF bodies.switch_default # <<>> THEN DefaultBlock ELSE EndBlock

\* the mutated branch at the end of a case body: always to sw.end
CaseBodyBranch_ToEnd(bodies, i) == EndBlock

\* the branch that ends the block of case body i: a break goes to sw.end (the
\* break target); a body without terminator goes on to the next case body,
\* after the last one to the default when there is one, else to sw.end
CaseBodyBranch(bodies, i) ==
  IF \E k \in 1..Len(bodies.switch_case_bodies[i]) :
       bodies.switch_case_bodies[i][k] = "BreakStmt"
  THEN EndBlock
  ELSE IF i + 1 <= Len(bodies.switch_case_bodies) THEN CaseBlock(i + 1)
  ELSE IF bodies.switch_default # <<>> THEN DefaultBlock
  ELSE EndBlock

\* EmitSwitchStmt, the blocks: the entry branch, the conditional branch of
\* every test and the branch that ends every body
EmitSwitchBlocks(st, bodies) ==
  LET tests == EmitSwitchStmt(st)
      n == Len(bodies.switch_case_bodies)
  IN [entry |-> IF n = 0 THEN DefaultTarget(bodies) ELSE TestBlock(1),
      tests |-> [i \in 1..n |->
                   [begin |-> tests[i].begin, end |-> tests[i].end,
                    true_target |-> CaseBlock(i),
                    false_target |-> IF i + 1 <= n THEN TestBlock(i + 1)
                                     ELSE DefaultTarget(bodies)]],
      cases |-> [i \in 1..n |-> CaseBodyBranch(bodies, i)],
      default |-> EndBlock]

\* no blocks are emitted yet
NotEmitted == [entry |-> EndBlock, tests |-> <<>>, cases |-> <<>>, default |-> EndBlock]

\* the comparison of a test block: icmp eq for begin = end, else
\* icmp sge and icmp sle
TestMatches(test, s) ==
  IF test.begin = test.end THEN s = test.begin
  ELSE s >= test.begin /\ s <= test.end

\* the body blocks control enters, in order, when the emitted blocks run from
\* bb with condition value s
RECURSIVE RunBlocks(_, _, _)
RunBlocks(cfg, bb, s) ==
  CASE bb.name = "sw.end" -> <<>>
    [] bb.name = "sw.test" ->
         RunBlocks(cfg, IF TestMatches(cfg.tests[bb.i], s) THEN cfg.tests[bb.i].true_target
                        ELSE cfg.tests[bb.i].false_target, s)
    [] bb.name = "sw.case" -> <<bb>> \o RunBlocks(cfg, cfg.cases[bb.i], s)
    [] OTHER -> <<bb>> \o RunBlocks(cfg, cfg.default, s)

\* the emitted switch has not run
NotRun == [s |-> 0, entered |-> <<>>]

SwitchStart(blocks) ==
  /\ switch_block \in blocks
  /\ switch_hir = NotLowered
  /\ switch_bodies = NoBodies
  /\ switch_tests = <<>>
  /\ switch_cfg = NotEmitted
  /\ switch_run = NotRun
  /\ switch_pc = "lower"

\* the HIR lowerer reaches the switch
LowerSwitch ==
  /\ switch_pc = "lower"
  /\ switch_hir' = LowerStmt(switch_block)
  /\ \E default \in DefaultBodies :
       switch_bodies' \in [switch_case_bodies : [1..Len(switch_block) -> CaseBodies],
                           switch_default : {default}]
  /\ switch_pc' = "emit"
  /\ UNCHANGED <<switch_block, switch_tests, switch_cfg, switch_run>>

\* the IR builder reaches the switch
EmitSwitch ==
  /\ switch_pc = "emit"
  /\ switch_tests' = EmitSwitchStmt(switch_hir)
  /\ switch_cfg' = EmitSwitchBlocks(switch_hir, switch_bodies)
  /\ switch_pc' = "done"
  /\ UNCHANGED <<switch_block, switch_hir, switch_bodies, switch_run>>

\* the emitted switch runs with a value of its condition
ExecuteSwitch ==
  /\ switch_pc = "done"
  /\ \E s \in Scrutinees :
       switch_run' = [s |-> s, entered |-> RunBlocks(switch_cfg, switch_cfg.entry, s)]
  /\ switch_pc' = "executed"
  /\ UNCHANGED <<switch_block, switch_hir, switch_bodies, switch_tests, switch_cfg>>

\* ----------------------------------------------------- reflection cache

\* hc_reflection_field: aggregate, field, type and the tokens of the annotations
Field(aggregate_name, field_name, annotations) ==
  [aggregate_name |-> aggregate_name, field_name |-> field_name, field_type |-> "I64",
   annotations |-> annotations]

\* the tables the emitted modules register; the null table has no field
ReflectionTables ==
  { <<>>,
    <<Field("Pair", "a", <<"visible">>), Field("Demo", "age", <<"dft_val", 9>>)>>,
    <<Field("Demo", "age", <<"dft_val", 5>>)>>,
    <<Field("Demo", "id", <<>>), Field("Demo", "age", <<"visible", 0, "dft_val", 9>>)>> }

ClassNames == {"Demo", "Pair"}

MetaKeys == {"dft_val", "visible"}

\* PopulateMemberMeta: a key and a value for every two tokens, the value 1
\* when the last key has none
RECURSIVE PopulateMemberMeta(_)
PopulateMemberMeta(annotations) ==
  IF annotations = <<>> THEN <<>>
  ELSE IF Len(annotations) = 1 THEN <<[key |-> annotations[1], value |-> 1]>>
  ELSE <<[key |-> annotations[1], value |-> annotations[2]]>>
         \o PopulateMemberMeta(SubSeq(annotations, 3, Len(annotations)))

\* FindClassByName: the index of the class in g_hash_classes, 0 for nullptr
FindClassByName(classes, class_name) ==
  IF \E i \in 1..Len(classes) : classes[i].class_name = class_name
    THEN CHOOSE i \in 1..Len(classes) :
           /\ classes[i].class_name = class_name
           /\ \A j \in 1..(i - 1) : classes[j].class_name # class_name
    ELSE 0

\* FindOrCreateClass and AppendMemberField for one field of the table
AppendMemberField(classes, field) ==
  LET member == [str |-> field.field_name, meta |-> PopulateMemberMeta(field.annotations)]
      found == FindClassByName(classes, field.aggregate_name)
  IN IF found # 0
       THEN [classes EXCEPT ![found].member_lst_and_root = Append(@, member)]
       ELSE <<[class_name |-> field.aggregate_name, member_lst_and_root |-> <<member>>]>>
              \o classes

\* the loop of EnsureReflectionCache over the first n fields
RECURSIVE BuildCache(_, _)
BuildCache(fields, n) ==
  IF n = 0 THEN <<>> ELSE AppendMemberField(BuildCache(fields, n - 1), fields[n])

\* EnsureReflectionCache: the classes of the cache once it is ready
EnsureReflectionCache(ready, classes, fields) ==
  IF ready THEN classes ELSE BuildCache(fields, Len(fields))

\* no CMemberLst: nullptr
NullMember == [class_name |-> "", epoch |-> 0, node |-> [str |-> "", meta |-> <<>>]]

\* no HcMemberMeta: nullptr
NullMeta == [key |-> "", value |-> 0]

\* the loop of MemberMetaData and MemberMetaFind over member->meta
FindMeta(key, node) ==
  IF \E i \in 1..Len(node.meta) : node.meta[i].key = key
    THEN node.meta[CHOOSE i \in 1..Len(node.meta) :
                     /\ node.meta[i].key = key
                     /\ \A j \in 1..(i - 1) : node.meta[j].key # key]
    ELSE NullMeta

\* what a CMemberLst pointer reads.  A pointer into the cache that was built
\* after the last ClearReflectionCache reads its node.  A pointer into a
\* cache that ClearReflectionCache has freed dangles: the block may still
\* hold the node, may have been handed out again for a node of the new
\* cache, or the read may fault.
Deref(member, epoch, classes) ==
  IF member.epoch = epoch THEN {[faults |-> FALSE, node |-> member.node]}
  ELSE {[faults |-> FALSE, node |-> member.node], [faults |-> TRUE, node |-> NullMember.node]}
         \cup {[faults |-> FALSE, node |-> node] :
                 node \in UNION {Range(classes[i].member_lst_and_root) : i \in 1..Len(classes)}}

\* no lookup is made since the table was registered
NoLookup == [call |-> "none", key |-> "", member |-> NullMember, faults |-> FALSE,
             meta |-> NullMeta]

ReflectionStart ==
  /\ g_reflection_fields = <<>>
  /\ g_hash_classes = <<>>
  /\ g_reflection_cache_ready = FALSE
  /\ reflection_epoch = 1
  /\ held_member = NullMember
  /\ hash_find = [name |-> "", klass |-> 0]
  /\ meta_lookup = NoLookup

\* the mutated registration: the cache is left as it is
hc_register_reflection_table_KeepCache(fields) ==
  /\ g_reflection_fields' = fields
  /\ UNCHANGED <<g_hash_classes, g_reflection_cache_ready, reflection_epoch>>

\* hc_register_reflection_table: the fields, then ClearReflectionCache frees
\* every node of the cache
hc_register_reflection_table(fields) ==
  /\ g_reflection_fields' = fields
  /\ g_hash_classes' = <<>>
  /\ g_reflection_cache_ready' = FALSE
  /\ reflection_epoch' = reflection_epoch + 1

\* a module registers its table when it starts to run
RegisterTable ==
  /\ reflection_epoch <= MaxTables
  /\ \E fields \in ReflectionTables : hc_register_reflection_table(fields)
  /\ hash_find' = [name |-> "", klass |-> 0]
  /\ meta_lookup' = NoLookup
  /\ UNCHANGED held_member

\* the program calls HashFind(name) and keeps the first member of the class
HashFind ==
  \E name \in ClassNames :
    LET classes == EnsureReflectionCache(g_reflection_cache_ready, g_hash_classes,
                                         g_reflection_fields)
        klass == FindClassByName(classes, name)
    IN /\ g_hash_classes' = classes
       /\ g_reflection_cache_ready' = TRUE
       /\ hash_find' = [name |-> name, klass |-> klass]
       /\ held_member' = IF klass = 0 THEN held_member
                         ELSE [class_name |-> name, epoch |-> reflection_epoch,
                               node |-> classes[klass].member_lst_and_root[1]]
       /\ UNCHANGED <<g_reflection_fields, reflection_epoch, meta_lookup>>

\* the program calls MemberMetaData(key, member) with the member it keeps
MemberMetaData ==
  /\ held_member # NullMember
  /\ \E key \in MetaKeys, read \in Deref(held_member, reflection_epoch, g_hash_classes) :
       meta_lookup' = [call |-> "MemberMetaData", key |-> key, member |-> held_member,
                       faults |-> read.faults,
                       meta |-> [key |-> "", value |-> FindMeta(key, read.node).value]]
  /\ UNCHANGED <<g_reflection_fields, g_hash_classes, g_reflection_cache_ready,
                 reflection_epoch, held_member, hash_find>>

\* the program calls MemberMetaFind(key, member) with the member it keeps
MemberMetaFind ==
  /\ held_member # NullMember
  /\ \E key \in MetaKeys, read \in Deref(held_member, reflection_epoch, g_hash_classes) :
       meta_lookup' = [call |-> "MemberMetaFind", key |-> key, member |-> held_member,
                       faults |-> read.faults,
                       meta |-> FindMeta(key, read.node)]
  /\ UNCHANGED <<g_reflection_fields, g_hash_classes, g_reflection_cache_ready,
                 reflection_epoch, held_member, hash_find>>

\* ------------------------------------------------------------ lock blocks

\* the threads that run a lock block on the shared U8 variable x
LockThreads == 1..MaxThreads

\* the value of an i8 as a natural
WrapU8(v) == v % 256

RECURSIVE BitwiseU8(_, _, _, _)
\* and, or, xor of two i8 values, bit by bit
BitwiseU8(op, a, b, bits) ==
  IF bits = 0 THEN 0
  ELSE LET p == a % 2
           q == b % 2
           r == IF op = "and" THEN p * q
                ELSE IF op = "or" THEN (p + q) - (p * q)
                ELSE (p + q) % 2
       IN r + 2 * BitwiseU8(op, a \div 2, b \div 2, bits - 1)

\* what atomicrmw stores for the old value and the operand
AtomicRMW(rmw_op, old, operand) ==
  IF rmw_op = "xchg" THEN operand
  ELSE IF rmw_op = "add" THEN WrapU8(old + operand)
  ELSE IF rmw_op = "sub" THEN WrapU8(old + 256 - operand)
  ELSE BitwiseU8(rmw_op, old, operand, 8)

\* EmitAtomicAssignExpr: the atomicrmw operation of an assignment operator
RmwOp(assign_op) ==
  IF assign_op = "=" THEN "xchg"
  ELSE IF assign_op = "+=" THEN "add"
  ELSE IF assign_op = "-=" THEN "sub"
  ELSE IF assign_op = "&=" THEN "and"
  ELSE IF assign_op = "|=" THEN "or"
  ELSE "xor"

\* the assignment operators EmitAtomicAssignExpr accepts
AssignOps == {"=", "+=", "-=", "&=", "|=", "^="}

\* right-hand sides: the literal 3, and x + 1 with x the variable the
\* statement assigns
RhsExprs == {[reads_x |-> FALSE, literal |-> 3], [reads_x |-> TRUE, literal |-> 1]}

\* the statements EmitLockStmt accepts in a lock block
LockStatements ==
  [kind : {"assign"}, assign_op : AssignOps, rhs : RhsExprs]
    \cup [kind : {"incdec"}, assign_op : {"++", "--"}, rhs : {[reads_x |-> FALSE, literal |-> 1]}]

\* EmitExpr of the right-hand side, cast to the type of the target: a read of
\* x is a plain load
EmitRhs(rhs, x) == WrapU8((IF rhs.reads_x THEN x ELSE 0) + rhs.literal)

\* a thread between two statements
LockIdle == [at |-> "idle", rhs_value |-> 0]

LockStart ==
  /\ lock_x = 0
  /\ lock_done = [t \in LockThreads |-> <<>>]
  /\ lock_pc = [t \in LockThreads |-> LockIdle]

\* thread t reaches an assignment of its lock block: EmitAtomicAssignExpr
\* first emits the right-hand side, whose value the thread computes
EmitAtomicAssignRhs(t) ==
  /\ lock_pc[t].at = "idle"
  /\ Len(lock_done[t]) < MaxLockStmts
  /\ \E st \in {s \in LockStatements : s.kind = "assign"} :
       /\ lock_done' = [lock_done EXCEPT ![t] = Append(@, st)]
       /\ lock_pc' = [lock_pc EXCEPT ![t] = [at |-> "rmw", rhs_value |-> EmitRhs(st.rhs, lock_x)]]
  /\ UNCHANGED lock_x

\* then the atomicrmw of the assignment, sequentially consistent
EmitAtomicAssignExpr(t) ==
  /\ lock_pc[t].at = "rmw"
  /\ LET st == lock_done[t][Len(lock_done[t])]
     IN lock_x' = AtomicRMW(RmwOp(st.assign_op), lock_x, lock_pc[t].rhs_value)
  /\ lock_pc' = [lock_pc EXCEPT ![t] = LockIdle]
  /\ UNCHANGED lock_done

\* thread t executes x++ or x-- of its lock block: atomicrmw add / sub of 1
EmitAtomicIncDec(t) ==
  /\ lock_pc[t].at = "idle"
  /\ Len(lock_done[t]) < MaxLockStmts
  /\ \E st \in {s \in LockStatements : s.kind = "incdec"} :
       /\ lock_done' = [lock_done EXCEPT ![t] = Append(@, st)]
       /\ lock_x' = AtomicRMW(IF st.assign_op = "++" THEN "add" ELSE "sub", lock_x, 1)
  /\ UNCHANGED lock_pc

\* ------------------------------------------------ conditional compilation

\* the expressions of the #if and #elif lines: 1, 0, 1 / 0 and the
\* malformed ( 1
CondExprs ==
  {<<Tok("number", <<1>>)>>,
   <<Tok("number", <<0>>)>>,
   <<Tok("number", <<1>>), Tok("op", "/"), Tok("number", <<0>>)>>,
   <<Tok("lparen", "("), Tok("number", <<1>>)>>}

\* EvalIfExpr on each of these expressions; none divides INT64_MIN by -1, the
\* one operation on which the builds differ
CondValues == [expr \in CondExprs |-> EvalIfExprValue(expr, TRUE)]

\* the lines ProcessFile may meet: conditional directives, #define X and
\* plain text
CondLines ==
  [d : {"if", "elif"}, expr : CondExprs, name : {""}]
    \cup [d : {"ifdef", "ifndef", "define"}, expr : {<<>>}, name : {"X"}]
    \cup [d : {"else", "endif", "text"}, expr : {<<>>}, name : {""}]

\* IsActive: the top frame decides, no frame means active
IsActive(frames) ==
  IF frames = <<>> THEN TRUE ELSE frames[Len(frames)].current_active

\* a mutation of PushCond: the new frame ignores the region around it
PushCond_IgnoreParent(frames, condition_true) ==
  Append(frames, [parent_active |-> IsActive(frames), branch_taken |-> condition_true,
                  current_active |-> condition_true])

\* PushCond: CondFrame{parent_active, condition_true, parent_active && condition_true}
PushCond(frames, condition_true) ==
  Append(frames, [parent_active |-> IsActive(frames), branch_taken |-> condition_true,
                  current_active |-> IsActive(frames) /\ condition_true])

\* the top frame after #else
DirectiveElse(top) ==
  [top EXCEPT !.current_active = top.parent_active /\ ~top.branch_taken,
              !.branch_taken = TRUE]

\* #elif evaluates its expression unless the region around the chain is
\* inactive or an arm has been taken
ElifEvaluates(top) == top.parent_active /\ ~top.branch_taken

\* the top frame after #elif whose expression, if evaluated, gave matched
DirectiveElif(top, matched) ==
  IF ~ElifEvaluates(top) THEN [top EXCEPT !.current_active = FALSE]
  ELSE [top EXCEPT !.current_active = matched,
                   !.branch_taken = top.branch_taken \/ matched]

\* the truth of a condition, false when the expression has no value
CondTruth(evaluated) == evaluated.fail = "" /\ evaluated.value # Int64(0)

\* history kept beside every frame: was text emitted just before the chain
\* (enclosing), has an arm so far had a true condition or been an #else
\* (matched), is the present arm the first such arm (selected), how many arms
\* of the chain have put text out (emitted_arms), and has the present one
\* (arm_emitted)
ChainOpened(chains, truth) ==
  Append(chains,
         [enclosing |-> IF chains = <<>> THEN TRUE
                        ELSE chains[Len(chains)].enclosing /\ chains[Len(chains)].selected,
          matched |-> truth, selected |-> truth, emitted_arms |-> 0, arm_emitted |-> FALSE])

ChainNextArm(chain, truth) ==
  [chain EXCEPT !.selected = ~chain.matched /\ truth,
                !.matched = chain.matched \/ truth,
                !.arm_emitted = FALSE]

ChainEmitted(chain) ==
  IF chain.arm_emitted THEN chain
  ELSE [chain EXCEPT !.arm_emitted = TRUE, !.emitted_arms = chain.emitted_arms + 1]

\* the line handled last
NoCondLine == [d |-> "none", skipped |-> FALSE, emitted |-> FALSE, enclosing |-> TRUE]

CondStart ==
  /\ cond_values = CondValues
  /\ cond = <<>>
  /\ cond_chains = <<>>
  /\ cond_macros = {}
  /\ cond_diag = ""
  /\ cond_last = NoCondLine

\* what a step leaves in cond_last
CondHandled(line, emitted, enclosing) ==
  [d |-> line.d, skipped |-> ~IsActive(cond), emitted |-> emitted, enclosing |-> enclosing]

\* ProcessFile reads a line that is no directive: ExpandLine goes to the
\* output when the region is active
ProcessTextLine ==
  /\ cond_diag = ""
  /\ LET line == [d |-> "text", expr |-> <<>>, name |-> ""]
     IN /\ cond_last' = CondHandled(line, IsActive(cond), TRUE)
        /\ cond_chains' = IF IsActive(cond) /\ cond_chains # <<>>
                            THEN [cond_chains EXCEPT ![Len(cond_chains)] = ChainEmitted(@)]
                          ELSE cond_chains
  /\ UNCHANGED <<cond_values, cond, cond_macros, cond_diag>>

\* HandleDirective on #ifdef X and #ifndef X
DirectiveIfdef ==
  /\ cond_diag = ""
  /\ Len(cond) < MaxCondDepth
  /\ \E line \in {l \in CondLines : l.d \in {"ifdef", "ifndef"}} :
       LET condition_true == (line.name \in cond_macros) = (line.d = "ifdef")
       IN /\ cond' = PushCond(cond, condition_true)
          /\ cond_chains' = ChainOpened(cond_chains, condition_true)
          /\ cond_last' = CondHandled(line, FALSE, TRUE)
  /\ UNCHANGED <<cond_values, cond_macros, cond_diag>>

\* HandleDirective on #if expr: PushCond(cond, EvalIfExpr(expr))
DirectiveIf ==
  /\ cond_diag = ""
  /\ Len(cond) < MaxCondDepth
  /\ \E line \in {l \in CondLines : l.d = "if"} :
       LET evaluated == cond_values[line.expr]
       IN /\ cond_last' = CondHandled(line, FALSE, TRUE)
          /\ IF evaluated.fail # ""
               THEN /\ cond_diag' = evaluated.fail
                    /\ UNCHANGED <<cond, cond_chains>>
               ELSE /\ cond' = PushCond(cond, CondTruth(evaluated))
                    /\ cond_chains' = ChainOpened(cond_chains, CondTruth(evaluated))
                    /\ UNCHANGED cond_diag
  /\ UNCHANGED <<cond_values, cond_macros>>

\* HandleDirective on #else
DirectiveElseLine ==
  /\ cond_diag = ""
  /\ LET line == [d |-> "else", expr |-> <<>>, name |-> ""]
     IN /\ cond_last' = CondHandled(line, FALSE, TRUE)
        /\ IF cond = <<>>
             THEN /\ cond_diag' = "HC1004"
                  /\ UNCHANGED <<cond, cond_chains>>
             ELSE /\ cond' = [cond EXCEPT ![Len(cond)] = DirectiveElse(@)]
                  /\ cond_chains' = [cond_chains EXCEPT ![Len(cond_chains)] =
                                       ChainNextArm(@, TRUE)]
                  /\ UNCHANGED cond_diag
  /\ UNCHANGED <<cond_values, cond_macros>>

\* HandleDirective on #elif expr
DirectiveElifLine ==
  /\ cond_diag = ""
  /\ \E line \in {l \in CondLines : l.d = "elif"} :
       LET evaluated == cond_values[line.expr]
           top == cond[Len(cond)]
       IN /\ cond_last' = CondHandled(line, FALSE, TRUE)
          /\ IF cond = <<>>
               THEN /\ cond_diag' = "HC1005"
                    /\ UNCHANGED <<cond, cond_chains>>
             ELSE IF ElifEvaluates(top) /\ evaluated.fail # ""
               THEN /\ cond_diag' = evaluated.fail
                    /\ UNCHANGED <<cond, cond_chains>>
             ELSE /\ cond' = [cond EXCEPT ![Len(cond)] = DirectiveElif(@, CondTruth(evaluated))]
                  /\ cond_chains' = [cond_chains EXCEPT ![Len(cond_chains)] =
                                       ChainNextArm(@, CondTruth(evaluated))]
                  /\ UNCHANGED cond_diag
  /\ UNCHANGED <<cond_values, cond_macros>>

\* HandleDirective on #endif
DirectiveEndif ==
  /\ cond_diag = ""
  /\ LET line == [d |-> "endif", expr |-> <<>>, name |-> ""]
     IN IF cond = <<>>
          THEN /\ cond_diag' = "HC1006"
               /\ cond_last' = CondHandled(line, FALSE, TRUE)
               /\ UNCHANGED <<cond, cond_chains>>
          ELSE /\ cond' = SubSeq(cond, 1, Len(cond) - 1)
               /\ cond_chains' = SubSeq(cond_chains, 1, Len(cond_chains) - 1)
               /\ cond_last' = CondHandled(line, FALSE, cond_chains[Len(cond_chains)].enclosing)
               /\ UNCHANGED cond_diag
  /\ UNCHANGED <<cond_values, cond_macros>>

\* HandleDirective on #define X: ignored in an inactive region
DirectiveDefine ==
  /\ cond_diag = ""
  /\ \E line \in {l \in CondLines : l.d = "define"} :
       /\ cond_macros' = IF IsActive(cond) THEN cond_macros \cup {line.name} ELSE cond_macros
       /\ cond_last' = CondHandled(line, FALSE, TRUE)
  /\ UNCHANGED <<cond_values, cond, cond_chains, cond_diag>>

\* std::getline fails: the file ends, with HC1002 when a chain is open
ProcessFileEnd ==
  /\ cond_diag = ""
  /\ cond_diag' = IF cond # <<>> THEN "HC1002" ELSE "done"
  /\ UNCHANGED <<cond_values, cond, cond_chains, cond_macros, cond_last>>

\* --------------------------------------------------------- macro expansion

\* the macros of the table; every other identifier of a text is x
MacroNames == {"A", "B"}

\* the texts of a line and of a macro body: identifiers, at most MaxBody
MacroTexts == UNION {[1..n -> MacroNames \cup {"x"}] : n \in 0..MaxBody}

\* the native stack holds a call of ExpandText for every macro and one for
\* the line, and some more; a deeper recursion overflows it
MaxExpandDepth == Cardinality(MacroNames) + 2

\* a mutation of the guard: no macro is ever found in the active set
ActiveMacrosFind_Never(active, ident) == FALSE

\* active_macros->find(ident) != active_macros->end()
ActiveMacrosFind(active, ident) == ident \in active

\* a call of ExpandText: the text, the index of the next identifier, and the
\* macro whose body the text is ("" for the line)
ExpandCall(text, ident) == [text |-> text, i |-> 1, ident |-> ident]

\* ExpandLine is about to be called with one of the lines, under one of the
\* macro tables
MacroStart(tables, lines) ==
  /\ macros_ \in tables
  /\ mac_line \in lines
  /\ mac_stack = <<>>
  /\ active_macros = {}
  /\ mac_out = <<>>
  /\ mac_pc = "line"

\* ExpandLine: ExpandText on the line with an empty active set
ExpandLine ==
  /\ mac_pc = "line"
  /\ mac_stack' = <<ExpandCall(mac_line, "")>>
  /\ active_macros' = {}
  /\ mac_pc' = "expand"
  /\ UNCHANGED <<macros_, mac_line, mac_out>>

\* ExpandText meets an identifier: a macro that is not being expanded is
\* expanded by a nested call, any other identifier is copied
ExpandIdent ==
  /\ mac_pc = "expand"
  /\ LET depth == Len(mac_stack)
         top == mac_stack[depth]
         ident == top.text[top.i]
         advanced == [mac_stack EXCEPT ![depth].i = top.i + 1]
     IN /\ top.i <= Len(top.text)
        /\ IF ident \in DOMAIN macros_ /\ ~ActiveMacrosFind(active_macros, ident)
             THEN IF depth >= MaxExpandDepth
                    THEN /\ mac_pc' = "stack overflow"
                         /\ UNCHANGED <<mac_stack, active_macros, mac_out>>
                    ELSE /\ mac_stack' = Append(advanced, ExpandCall(macros_[ident], ident))
                         /\ active_macros' = active_macros \cup {ident}
                         /\ UNCHANGED <<mac_out, mac_pc>>
             ELSE /\ mac_out' = Append(mac_out, ident)
                  /\ mac_stack' = advanced
                  /\ UNCHANGED <<active_macros, mac_pc>>
  /\ UNCHANGED <<macros_, mac_line>>

\* ExpandText reaches the end of its text and returns: the caller erases the
\* macro from the active set; the call for the line returns to ExpandLine
ExpandReturn ==
  /\ mac_pc = "expand"
  /\ LET depth == Len(mac_stack)
         top == mac_stack[depth]
     IN /\ top.i > Len(top.text)
        /\ mac_stack' = SubSeq(mac_stack, 1, depth - 1)
        /\ active_macros' = active_macros \ {top.ident}
        /\ mac_pc' = IF depth = 1 THEN "done" ELSE "expand"
  /\ UNCHANGED <<macros_, mac_line, mac_out>>

\* -------------------------------------------------------- include nesting

\* the depth beyond which ProcessFile refuses to run
MaxIncludeDepth == 64
MaxChain == 66    \* files below the main file in a chain of includes
MaxTries == 4     \* try statements of a function given to the lowering
MaxFunctions == 2 \* functions of the module given to the lowering
MaxDecls == 2     \* top-level declarations of a program given to sema

\* the files: file 0 is the one given to the preprocessor, and file k holds
\* the line #include "file k + 1" when k is below the length of the chain;
\* the last file of a closed chain includes file 0 again
IncludeTarget(file, chain, closed) ==
  IF file < chain THEN file + 1
  ELSE IF closed THEN 0
  ELSE -1

\* a mutation of the depth test: no depth is refused
DepthExceeded_Never(depth) == FALSE

\* ProcessFile: depth > 64
DepthExceeded(depth) == depth > MaxIncludeDepth

IncludeStart(chains) ==
  /\ inc_chain \in chains
  /\ inc_closed \in BOOLEAN
  /\ inc_stack = <<0>>
  /\ inc_depth = 0
  /\ inc_pc = "enter"
  /\ inc_diag = ""
  /\ inc_processed = {}

\* ProcessFile is entered: the depth test, then the lines of the file are read
ProcessFileEnter ==
  /\ inc_pc = "enter"
  /\ IF DepthExceeded(inc_depth)
       THEN /\ inc_diag' = "HC1001"
            /\ inc_pc' = "failed"
            /\ UNCHANGED inc_processed
       ELSE /\ inc_pc' = "lines"
            /\ inc_processed' = inc_processed \cup {inc_depth}
            /\ UNCHANGED inc_diag
  /\ UNCHANGED <<inc_chain, inc_closed, inc_stack, inc_depth>>

\* HandleDirective on the #include line of the file: the cycle test, then
\* the stack grows and ProcessFile is called with depth + 1
IncludeDirective ==
  /\ inc_pc = "lines"
  /\ LET canonical_include ==
           IncludeTarget(inc_stack[Len(inc_stack)], inc_chain, inc_closed)
     IN /\ canonical_include # -1
        /\ IF \E k \in 1..Len(inc_stack) : inc_stack[k] = canonical_include
             THEN /\ inc_diag' = "HC1023"
                  /\ inc_pc' = "failed"
                  /\ UNCHANGED <<inc_stack, inc_depth>>
             ELSE /\ inc_stack' = Append(inc_stack, canonical_include)
                  /\ inc_depth' = inc_depth + 1
                  /\ inc_pc' = "enter"
                  /\ UNCHANGED inc_diag
  /\ UNCHANGED <<inc_chain, inc_closed, inc_processed>>

\* a file without #include is read to its end
ProcessFileLines ==
  /\ inc_pc = "lines"
  /\ IncludeTarget(inc_stack[Len(inc_stack)], inc_chain, inc_closed) = -1
  /\ inc_pc' = "return"
  /\ UNCHANGED <<inc_chain, inc_closed, inc_stack, inc_depth, inc_diag, inc_processed>>

\* ProcessFile returns: to HandleDirective, which pops the stack and returns
\* to the loop of the including file (the #include is its last line), or to
\* Process
ProcessFileReturn ==
  /\ inc_pc = "return"
  /\ IF inc_depth = 0
       THEN /\ inc_pc' = "done"
            /\ UNCHANGED <<inc_stack, inc_depth>>
       ELSE /\ inc_stack' = SubSeq(inc_stack, 1, Len(inc_stack) - 1)
            /\ inc_depth' = inc_depth - 1
            /\ UNCHANGED inc_pc
  /\ UNCHANGED <<inc_chain, inc_closed, inc_diag, inc_processed>>

\* ----------------------------------------------- exception region lowering

\* a TryStmt of the parser: children[1] is the try body, children[2] the
\* catch body; of the statements of a body only the try statements are kept
TryStmt(try_body, catch_body) == [kind |-> "TryStmt", children |-> <<try_body, catch_body>>]

RECURSIVE TryBlocks(_)
\* the statement lists with n try statements in all
TryBlocks(n) ==
  IF n = 0 THEN {<<>>}
  ELSE UNION {{<<TryStmt(try_body, catch_body)>> \o rest :
                 try_body \in TryBlocks(split[2]),
                 catch_body \in TryBlocks(split[1] - 1 - split[2]),
                 rest \in TryBlocks(n - split[1])} :
              split \in {s \in (1..n) \X (0..(n - 1)) : s[2] < s[1]}}

\* the function bodies given to the lowering
FunctionBlocks == UNION {TryBlocks(n) : n \in 0..MaxTries}

\* a mutation: the catch body is lowered with the region of its own try
\* statement on the stack
CatchRegionStack_OwnRegion(stack, region_id, parent_region_id) == Append(stack, region_id)

\* exception_region_stack_ while the catch body is lowered: the region is
\* popped, and the parent region, if there is one, is pushed once more
CatchRegionStack(stack, region_id, parent_region_id) ==
  IF parent_region_id >= 0 THEN Append(stack, parent_region_id) ELSE stack

RECURSIVE LowerStmts(_, _, _)
\* LowerStmt on the statements of a block, one after another: the lowered
\* statements and next_exception_region_id_ after them
LowerStmts(stmts, next_id, stack) ==
  IF stmts = <<>> THEN [out |-> <<>>, next_id |-> next_id]
  ELSE LET stmt == stmts[1]
           parent == IF stack = <<>> THEN -1 ELSE stack[Len(stack)]
           try == LowerStmts(stmt.children[1], next_id + 1, Append(stack, next_id))
           catch == LowerStmts(stmt.children[2], try.next_id,
                               CatchRegionStack(stack, next_id, parent))
           hs == [kind |-> "kTryCatch",
                  exception_region_id |-> next_id,
                  exception_parent_region_id |-> parent,
                  try_body |-> try.out,
                  catch_body |-> catch.out]
           rest == LowerStmts(Tail(stmts), catch.next_id, stack)
       IN [out |-> <<hs>> \o rest.out, next_id |-> rest.next_id]

\* no function is lowered yet
HirStart ==
  /\ next_exception_region_id_ = 1
  /\ hir_function = [lowered |-> 0, block |-> <<>>, body |-> <<>>]

\* LowerFunction on the next function of the module: the counter starts at
\* 1 again and the region stack is empty
LowerFunction ==
  /\ hir_function.lowered < MaxFunctions
  /\ \E block \in FunctionBlocks :
       LET lowered == LowerStmts(block, 1, <<>>)
       IN /\ hir_function' = [lowered |-> hir_function.lowered + 1, block |-> block,
                              body |-> lowered.out]
          /\ next_exception_region_id_' = lowered.next_id

\* ---------------------------------------------------------------------
\* Sema's symbol tables (frontend/sema.cpp): Analyze fills global_symbols_,
\* imported_symbols_ and functions_ from the built-ins and from the top-level
\* declarations of a program
\* ---------------------------------------------------------------------

\* names of the declarations given to sema: a built-in global, a built-in
\* function and a name that is no built-in
SymbolNames == {"RED", "PressAKey", "f"}

\* declared types
SymbolTypes == {"I64", "U0"}

\* a top-level declaration: a function (with or without a body), a global
\* variable, or an extern linkage declaration
TopLevelDecls ==
  [kind : {"FunctionDecl"}, type : SymbolTypes, name : SymbolNames, has_body : BOOLEAN]
    \cup [kind : {"VarDecl", "LinkageDecl"}, type : SymbolTypes, name : SymbolNames,
          has_body : {FALSE}]

\* the children of the Program nodes given to sema
SymbolPrograms == UNION {[1..n -> TopLevelDecls] : n \in 0..MaxDecls}

\* the tables of the analyzer, and the diagnostic that ended the analysis
SymbolTables(globals, imported, functions, definitions, diag) ==
  [globals |-> globals, imported |-> imported, functions |-> functions,
   definitions |-> definitions, diag |-> diag]

\* a table with one more entry
Emplace(table, name, value) ==
  [n \in DOMAIN table \cup {name} |-> IF n = name THEN value ELSE table[n]]

\* a table without one entry
EraseName(table, name) == [n \in DOMAIN table \ {name} |-> table[n]]

\* Error throws: the analysis ends with the diagnostic
ThrowError(st, msg) == [st EXCEPT !.diag = msg]

\* the signature of a function without parameters
FunctionSig(return_type, name) ==
  [return_type |-> return_type, name |-> name, params |-> <<>>]

SameSignature(a, b) ==
  a.return_type = b.return_type /\ Len(a.params) = Len(b.params)
    /\ \A i \in 1..Len(a.params) : a.params[i] = b.params[i]

\* add_builtin_global of BootstrapTempleOsBuiltins
BuiltinGlobals ==
  [n \in {"TRUE", "FALSE", "NULL", "YorN", "tS", "RED", "HTT_CLASS", "Fs", "Gs"} |->
     CASE n \in {"TRUE", "FALSE", "YorN"} -> "Bool"
       [] n = "NULL" -> "U8*"
       [] n = "tS" -> "F64"
       [] n \in {"RED", "HTT_CLASS"} -> "I64"
       [] OTHER -> "FsCtx *"]

\* add_builtin_function of BootstrapTempleOsBuiltins: return type and
\* parameter types
BuiltinFunctions ==
  [n \in {"PressAKey", "ClassRep", "ClassRepD", "HashFind", "MemberMetaData",
          "MemberMetaFind", "JobQue", "JobResGet", "CallStkGrow"} |->
     [return_type |->
        CASE n \in {"PressAKey", "ClassRep", "ClassRepD"} -> "U0"
          [] n = "HashFind" -> "CHashClass *"
          [] n = "JobQue" -> "CJob *"
          [] OTHER -> "I64",
      name |-> n,
      params |->
        CASE n = "PressAKey" -> <<>>
          [] n \in {"ClassRep", "ClassRepD"} -> <<"U8*">>
          [] n = "HashFind" -> <<"U8*", "U8*", "I64">>
          [] n \in {"MemberMetaData", "MemberMetaFind"} -> <<"U8*", "CMemberLst *">>
          [] n = "JobQue" -> <<"U8*", "U8*", "I64", "I64">>
          [] n = "JobResGet" -> <<"CJob *">>
          [] OTHER -> <<"I64", "I64", "U8*", "I64", "I64", "I64">>]]

\* the built-in globals go into global_symbols_ and the built-in functions
\* into functions_
BootstrapTempleOsBuiltins(st) ==
  [st EXCEPT
     !.globals = [n \in DOMAIN BuiltinGlobals \cup DOMAIN st.globals |->
                    IF n \in DOMAIN st.globals THEN st.globals[n] ELSE BuiltinGlobals[n]],
     !.functions = [n \in DOMAIN BuiltinFunctions \cup DOMAIN st.functions |->
                      IF n \in DOMAIN st.functions THEN st.functions[n]
                      ELSE BuiltinFunctions[n]]]

\* the functions of the program go into functions_; only functions_ and
\* function_definitions_ are looked at
RECURSIVE CollectFunctionSignatures(_, _)
CollectFunctionSignatures(children, st) ==
  IF children = <<>> \/ st.diag # "" THEN st
  ELSE LET child == Head(children)
           sig == FunctionSig(child.type, child.name)
           declared ==
             IF sig.name \notin DOMAIN st.functions
             THEN [st EXCEPT !.functions = Emplace(st.functions, sig.name, sig)]
             ELSE IF ~SameSignature(st.functions[sig.name], sig)
                  THEN ThrowError(st, "conflicting function declaration")
                  ELSE st
           defined ==
             IF declared.diag # "" \/ ~child.has_body THEN declared
             ELSE IF sig.name \in declared.definitions
                  THEN ThrowError(declared, "duplicate function definition")
                  ELSE [declared EXCEPT !.definitions = @ \cup {sig.name}]
       IN IF child.kind # "FunctionDecl"
          THEN CollectFunctionSignatures(Tail(children), st)
          ELSE CollectFunctionSignatures(Tail(children), defined)

\* DeclareGlobal: a global that is no global yet and no function; an
\* imported symbol of the same type gives way to it
DeclareGlobal(st, name, type) ==
  IF name \in DOMAIN st.globals THEN ThrowError(st, "duplicate global declaration")
  ELSE IF name \in DOMAIN st.functions
  THEN ThrowError(st, "global declaration conflicts with function symbol")
  ELSE IF name \in DOMAIN st.imported /\ st.imported[name] # type
  THEN ThrowError(st, "global declaration type conflicts with imported symbol")
  ELSE [st EXCEPT !.imported = EraseName(st.imported, name),
                  !.globals = Emplace(st.globals, name, type)]

\* DeclareImported: nothing to do when a global of the same type exists; a
\* function of that name is an error
DeclareImported(st, name, type) ==
  IF name \in DOMAIN st.globals
  THEN IF st.globals[name] # type
       THEN ThrowError(st, "imported symbol conflicts with global declaration")
       ELSE st
  ELSE IF name \in DOMAIN st.functions
  THEN ThrowError(st, "imported symbol conflicts with function symbol")
  ELSE IF name \in DOMAIN st.imported /\ st.imported[name] # type
  THEN ThrowError(st, "conflicting imported symbol declaration")
  ELSE [st EXCEPT !.imported = Emplace(st.imported, name, type)]

\* the globals and the linkage declarations of the program are declared
RECURSIVE CollectGlobalSymbols(_, _)
CollectGlobalSymbols(children, st) ==
  IF children = <<>> \/ st.diag # "" THEN st
  ELSE LET child == Head(children)
       IN CollectGlobalSymbols(Tail(children),
            CASE child.kind = "VarDecl" -> DeclareGlobal(st, child.name, child.type)
              [] child.kind = "LinkageDecl" -> DeclareImported(st, child.name, child.type)
              [] OTHER -> st)

\* AnalyzeVarDecl at top level: the global is declared when it is none yet,
\* else its type has to agree
AnalyzeVarDecl(st, child) ==
  IF child.name \notin DOMAIN st.globals THEN DeclareGlobal(st, child.name, child.type)
  ELSE IF st.globals[child.name] # child.type
       THEN ThrowError(st, "conflicting global declaration type")
       ELSE st

\* the loop of Analyze over the children of the program; the functions here
\* have empty bodies and the linkage declarations are passed over
RECURSIVE AnalyzeChildren(_, _)
AnalyzeChildren(children, st) ==
  IF children = <<>> \/ st.diag # "" THEN st
  ELSE AnalyzeChildren(Tail(children),
         IF Head(children).kind = "VarDecl" THEN AnalyzeVarDecl(st, Head(children))
         ELSE st)

\* a fresh analyzer holding the program it is to analyze
SymbolStart(programs) ==
  /\ sym_program \in programs
  /\ sym_tables = SymbolTables(<<>>, <<>>, <<>>, {}, "")
  /\ sym_pc = "bootstrap"

\* Analyze, first call
AnalyzeBootstrap ==
  /\ sym_pc = "bootstrap"
  /\ sym_tables' = BootstrapTempleOsBuiltins(sym_tables)
  /\ sym_pc' = "functions"
  /\ UNCHANGED sym_program

\* Analyze, second call
AnalyzeCollectFunctions ==
  /\ sym_pc = "functions"
  /\ sym_tables' = CollectFunctionSignatures(sym_program, sym_tables)
  /\ sym_pc' = IF sym_tables'.diag # "" THEN "rejected" ELSE "globals"
  /\ UNCHANGED sym_program

\* Analyze, third call
AnalyzeCollectGlobals ==
  /\ sym_pc = "globals"
  /\ sym_tables' = CollectGlobalSymbols(sym_program, sym_tables)
  /\ sym_pc' = IF sym_tables'.diag # "" THEN "rejected" ELSE "toplevel"
  /\ UNCHANGED sym_program

\* Analyze, the loop over the children
AnalyzeProgram ==
  /\ sym_pc = "toplevel"
  /\ sym_tables' = AnalyzeChildren(sym_program, sym_tables)
  /\ sym_pc' = IF sym_tables'.diag # "" THEN "rejected" ELSE "accepted"
  /\ UNCHANGED sym_program

\* no function is given to sema
SemaIdle == SemaStart({Node("Block", <<>>, <<>>)})

\* no file is given to the preprocessor
PreprocessorIdle == PreprocessorStart({<<>>}, {<<>>}, {<<"a.hc">>})

\* no #if line is met
IfIdle == IfStart({<<>>})

\* no lane is assigned
LaneIdle == LaneStart({[lane |-> "u8", base_type |-> "U8", index |-> 0, rhs_type |-> "U8"]}, LAMBDA holy_type : {<<0>>})

\* no switch is compiled
SwitchIdle == SwitchStart({<<>>})

\* no reflection table is registered
ReflectionIdle == ReflectionStart

\* no thread runs a lock block
LockBlocksIdle == LockStart

\* no file with conditional directives is read
CondIdle == CondStart

\* no line is expanded
MacroIdle == MacroStart({[m \in MacroNames |-> <<>>]}, {<<"x">>})

\* no file is included
IncludeIdle == IncludeStart({0}) /\ ~inc_closed

\* no function is lowered
HirIdle == HirStart

\* no program is given to the symbol collection
SymbolIdle == SymbolStart({<<>>})

\* the frontend is not run and no program computes
FrontendIdle ==
  /\ SemaIdle
  /\ PreprocessorIdle
  /\ IfIdle
  /\ LaneIdle
  /\ SwitchIdle
  /\ ReflectionIdle
  /\ LockBlocksIdle
  /\ CondIdle
  /\ MacroIdle
  /\ IncludeIdle
  /\ HirIdle
  /\ SymbolIdle

\* a backend or runtime step leaves the other subsystems alone
JitOnly == UNCHANGED <<tryvars, replvars, frontvars>>

\* the backend calls of a driver whose programs create no threads
LinkNext ==
  \/ LoadEnter /\ JitOnly
  \/ LoadReturn(IrTexts) /\ JitOnly
  \/ ExecEnter /\ JitOnly
  \/ ExecPrepare(IrTexts) /\ JitOnly
  \/ MainReturn /\ JitOnly
  \/ ExecWaitAll /\ JitOnly
  \/ ExecReturn /\ JitOnly
  \/ ResetEnter /\ JitOnly
  \/ ResetWaitAll /\ JitOnly
  \/ ResetReturn /\ JitOnly

\* the backend calls with programs that use Spawn, JobQue and JobResGet
SpawnNext ==
  \/ LoadEnter /\ JitOnly
  \/ LoadReturn(SpawnIrTexts) /\ JitOnly
  \/ ExecEnter /\ JitOnly
  \/ ExecPrepare(SpawnIrTexts) /\ JitOnly
  \/ MainReturn /\ JitOnly
  \/ ExecWaitAll /\ JitOnly
  \/ ExecReturn /\ JitOnly
  \/ ResetEnter /\ JitOnly
  \/ ResetWaitAll /\ JitOnly
  \/ ResetReturn /\ JitOnly
  \/ \E e \in Executors : SpawnMark(e) /\ JitOnly
  \/ \E e \in Executors : SpawnCreate(e) /\ JitOnly
  \/ \E e \in Executors : SpawnCreateFails(e) /\ JitOnly
  \/ \E t \in ThreadIds : SpawnThreadMain(t) /\ JitOnly
  \/ \E e \in Executors : JobQue(e) /\ JitOnly
  \/ \E t \in ThreadIds : JobThreadMain(t) /\ JitOnly
  \/ \E e \in Executors, j \in ThreadIds : JobResGet(e, j) /\ JitOnly

\* the programs of the backend specifications contain no try statement that
\* is ever reached
NoTryProgram == {[f \in Frames |-> Root]}

LinkInit ==
  JitInit({"", "_"}, SessionKeys) /\ TryStart(NoTryProgram) /\ ReplStart /\ FrontendIdle

SpawnInit ==
  JitInit({""}, SessionKeys) /\ TryStart(NoTryProgram) /\ ReplStart /\ FrontendIdle

SpecLink == LinkInit /\ [][LinkNext]_vars

SpecSpawn == SpawnInit /\ [][SpawnNext]_vars

\* one thread executes a function with MaxFrames try statements
TryOnly == UNCHANGED <<jitvars, replvars, frontvars>>

TryInit ==
  JitInit({""}, SessionKeys) /\ TryStart(TryPrograms) /\ ReplStart /\ FrontendIdle

TryNext ==
  \/ \E f \in Frames : EmitTryCatchStmt(f) /\ TryOnly
  \/ \E f \in Frames : TryBodyEnd(f) /\ TryOnly
  \/ \E f \in Frames : CatchBodyEnd(f) /\ TryOnly
  \/ \E target \in Positions : EmitGotoStmt(target) /\ TryOnly
  \/ \E payload \in Payloads : hc_throw_i64(payload) /\ TryOnly

SpecTry == TryInit /\ [][TryNext]_vars

\* a REPL whose cells start no threads and contain no try statement
ReplOnly ==
  UNCHANGED <<global_prefix, g_spawn_inflight, g_next_task_id, thr, jobs, drv, call,
              result, tryvars, frontvars>>

ReplInit ==
  JitInit({""}, {SessionKey(ReplSession)}) /\ TryStart(NoTryProgram) /\ ReplStart
    /\ FrontendIdle

ReplNext == \E line \in Lines, fault \in Faults : RunRepl(line, fault) /\ ReplOnly

SpecRepl == ReplInit /\ [][ReplNext]_vars

\* nothing is loaded, executed or read by the REPL
BackendIdle == JitInit({""}, SessionKeys) /\ TryStart(NoTryProgram) /\ ReplStart

\* a step of the frontend, or of a program on its own data, leaves the backend,
\* the runtime's threads and frames and the REPL alone
BackendUnchanged == UNCHANGED <<jitvars, tryvars, replvars>>

\* sema analyzes one function
SemaInit ==
  /\ BackendIdle
  /\ SemaStart(FunctionBodies)
  /\ PreprocessorIdle
  /\ IfIdle
  /\ LaneIdle
  /\ SwitchIdle
  /\ ReflectionIdle
  /\ LockBlocksIdle
  /\ CondIdle
  /\ MacroIdle
  /\ IncludeIdle
  /\ HirIdle
  /\ SymbolIdle

SpecSema ==
  SemaInit /\ [][AnalyzeTopLevel /\ BackendUnchanged /\ UNCHANGED <<prevars, ifvars, lanevars, switchvars, reflvars, lockvars, condvars, macvars, incvars, hirvars, symvars>>]_vars

\* the preprocessor runs on one file
PreInit ==
  /\ BackendIdle
  /\ PreprocessorStart(Sources, IncludedSources, FileNames)
  /\ SemaIdle
  /\ IfIdle
  /\ LaneIdle
  /\ SwitchIdle
  /\ ReflectionIdle
  /\ LockBlocksIdle
  /\ CondIdle
  /\ MacroIdle
  /\ IncludeIdle
  /\ HirIdle
  /\ SymbolIdle

SpecPre ==
  PreInit /\ [][RunPreprocessor /\ BackendUnchanged /\ UNCHANGED <<semavars, ifvars, lanevars, switchvars, reflvars, lockvars, condvars, macvars, incvars, hirvars, symvars>>]_vars

\* the preprocessor evaluates the expression of one #if line
IfInit ==
  /\ BackendIdle
  /\ IfStart(Expressions)
  /\ SemaIdle
  /\ PreprocessorIdle
  /\ LaneIdle
  /\ SwitchIdle
  /\ ReflectionIdle
  /\ LockBlocksIdle
  /\ CondIdle
  /\ MacroIdle
  /\ IncludeIdle
  /\ HirIdle
  /\ SymbolIdle

SpecIf ==
  IfInit /\ [][EvalIfExpr /\ BackendUnchanged /\ UNCHANGED <<semavars, prevars, lanevars, switchvars, reflvars, lockvars, condvars, macvars, incvars, hirvars, symvars>>]_vars

\* a program assigns a lane of a variable and reads it back
LaneInit ==
  /\ BackendIdle
  /\ LaneStart(LaneAssignments, ValuesOf)
  /\ SemaIdle
  /\ PreprocessorIdle
  /\ IfIdle
  /\ SwitchIdle
  /\ ReflectionIdle
  /\ LockBlocksIdle
  /\ CondIdle
  /\ MacroIdle
  /\ IncludeIdle
  /\ HirIdle
  /\ SymbolIdle

LaneNext ==
  \/ EmitAssignExpr /\ BackendUnchanged /\ UNCHANGED <<semavars, prevars, ifvars, switchvars, reflvars, lockvars, condvars, macvars, incvars, hirvars, symvars>>
  \/ EmitLaneExpr /\ BackendUnchanged /\ UNCHANGED <<semavars, prevars, ifvars, switchvars, reflvars, lockvars, condvars, macvars, incvars, hirvars, symvars>>

SpecLane == LaneInit /\ [][LaneNext]_vars

\* a switch statement is lowered and emitted
SwitchInit ==
  /\ BackendIdle
  /\ SwitchStart(SwitchBlocks)
  /\ SemaIdle
  /\ PreprocessorIdle
  /\ IfIdle
  /\ LaneIdle
  /\ ReflectionIdle
  /\ LockBlocksIdle
  /\ CondIdle
  /\ MacroIdle
  /\ IncludeIdle
  /\ HirIdle
  /\ SymbolIdle

SwitchNext ==
  \/ LowerSwitch /\ BackendUnchanged /\ UNCHANGED <<semavars, prevars, ifvars, lanevars, reflvars, lockvars, condvars, macvars, incvars, hirvars, symvars>>
  \/ EmitSwitch /\ BackendUnchanged /\ UNCHANGED <<semavars, prevars, ifvars, lanevars, reflvars, lockvars, condvars, macvars, incvars, hirvars, symvars>>
  \/ ExecuteSwitch /\ BackendUnchanged /\ UNCHANGED <<semavars, prevars, ifvars, lanevars, reflvars, lockvars, condvars, macvars, incvars, hirvars, symvars>>

SpecSwitch == SwitchInit /\ [][SwitchNext]_vars

\* a thread registers reflection tables and looks members up
ReflectInit ==
  /\ BackendIdle
  /\ ReflectionStart
  /\ SemaIdle
  /\ PreprocessorIdle
  /\ IfIdle
  /\ LaneIdle
  /\ SwitchIdle
  /\ LockBlocksIdle
  /\ CondIdle
  /\ MacroIdle
  /\ IncludeIdle
  /\ HirIdle
  /\ SymbolIdle

ReflectNext ==
  \/ RegisterTable /\ BackendUnchanged /\ UNCHANGED <<semavars, prevars, ifvars, lanevars, switchvars, lockvars, condvars, macvars, incvars, hirvars, symvars>>
  \/ HashFind /\ BackendUnchanged /\ UNCHANGED <<semavars, prevars, ifvars, lanevars, switchvars, lockvars, condvars, macvars, incvars, hirvars, symvars>>
  \/ MemberMetaData /\ BackendUnchanged /\ UNCHANGED <<semavars, prevars, ifvars, lanevars, switchvars, lockvars, condvars, macvars, incvars, hirvars, symvars>>
  \/ MemberMetaFind /\ BackendUnchanged /\ UNCHANGED <<semavars, prevars, ifvars, lanevars, switchvars, lockvars, condvars, macvars, incvars, hirvars, symvars>>

SpecReflect == ReflectInit /\ [][ReflectNext]_vars

\* threads run lock blocks on one shared variable
LockInit ==
  /\ BackendIdle
  /\ LockStart
  /\ SemaIdle
  /\ PreprocessorIdle
  /\ IfIdle
  /\ LaneIdle
  /\ SwitchIdle
  /\ ReflectionIdle
  /\ CondIdle
  /\ MacroIdle
  /\ IncludeIdle
  /\ HirIdle
  /\ SymbolIdle

EmitLockStmt ==
  \/ \E t \in LockThreads : EmitAtomicAssignRhs(t) /\ BackendUnchanged /\ UNCHANGED <<semavars, prevars, ifvars, lanevars, switchvars, reflvars, condvars, macvars, incvars, hirvars, symvars>>
  \/ \E t \in LockThreads : EmitAtomicAssignExpr(t) /\ BackendUnchanged /\ UNCHANGED <<semavars, prevars, ifvars, lanevars, switchvars, reflvars, condvars, macvars, incvars, hirvars, symvars>>
  \/ \E t \in LockThreads : EmitAtomicIncDec(t) /\ BackendUnchanged /\ UNCHANGED <<semavars, prevars, ifvars, lanevars, switchvars, reflvars, condvars, macvars, incvars, hirvars, symvars>>

SpecLock == LockInit /\ [][EmitLockStmt]_vars

\* ProcessFile reads the lines of a file with conditional directives
CondInit ==
  /\ BackendIdle
  /\ CondStart
  /\ SemaIdle
  /\ PreprocessorIdle
  /\ IfIdle
  /\ LaneIdle
  /\ SwitchIdle
  /\ ReflectionIdle
  /\ LockBlocksIdle
  /\ MacroIdle
  /\ IncludeIdle
  /\ HirIdle
  /\ SymbolIdle

CondNext ==
  \/ ProcessTextLine /\ BackendUnchanged /\ UNCHANGED <<semavars, prevars, ifvars, lanevars, switchvars, reflvars, lockvars, macvars, incvars, hirvars, symvars>>
  \/ DirectiveIfdef /\ BackendUnchanged /\ UNCHANGED <<semavars, prevars, ifvars, lanevars, switchvars, reflvars, lockvars, macvars, incvars, hirvars, symvars>>
  \/ DirectiveIf /\ BackendUnchanged /\ UNCHANGED <<semavars, prevars, ifvars, lanevars, switchvars, reflvars, lockvars, macvars, incvars, hirvars, symvars>>
  \/ DirectiveElseLine /\ BackendUnchanged /\ UNCHANGED <<semavars, prevars, ifvars, lanevars, switchvars, reflvars, lockvars, macvars, incvars, hirvars, symvars>>
  \/ DirectiveElifLine /\ BackendUnchanged /\ UNCHANGED <<semavars, prevars, ifvars, lanevars, switchvars, reflvars, lockvars, macvars, incvars, hirvars, symvars>>
  \/ DirectiveEndif /\ BackendUnchanged /\ UNCHANGED <<semavars, prevars, ifvars, lanevars, switchvars, reflvars, lockvars, macvars, incvars, hirvars, symvars>>
  \/ DirectiveDefine /\ BackendUnchanged /\ UNCHANGED <<semavars, prevars, ifvars, lanevars, switchvars, reflvars, lockvars, macvars, incvars, hirvars, symvars>>
  \/ ProcessFileEnd /\ BackendUnchanged /\ UNCHANGED <<semavars, prevars, ifvars, lanevars, switchvars, reflvars, lockvars, macvars, incvars, hirvars, symvars>>

SpecCond == CondInit /\ [][CondNext]_vars

\* ExpandLine expands the macros of one line; the calls of ExpandText go on until they return
ExpandInit ==
  /\ BackendIdle
  /\ MacroStart([MacroNames -> MacroTexts], {<<m>> : m \in MacroNames})
  /\ SemaIdle
  /\ PreprocessorIdle
  /\ IfIdle
  /\ LaneIdle
  /\ SwitchIdle
  /\ ReflectionIdle
  /\ LockBlocksIdle
  /\ CondIdle
  /\ IncludeIdle
  /\ HirIdle
  /\ SymbolIdle

ExpandNext ==
  \/ ExpandLine /\ BackendUnchanged /\ UNCHANGED <<semavars, prevars, ifvars, lanevars, switchvars, reflvars, lockvars, condvars, incvars, hirvars, symvars>>
  \/ ExpandIdent /\ BackendUnchanged /\ UNCHANGED <<semavars, prevars, ifvars, lanevars, switchvars, reflvars, lockvars, condvars, incvars, hirvars, symvars>>
  \/ ExpandReturn /\ BackendUnchanged /\ UNCHANGED <<semavars, prevars, ifvars, lanevars, switchvars, reflvars, lockvars, condvars, incvars, hirvars, symvars>>

SpecExpand == ExpandInit /\ [][ExpandNext]_vars /\ WF_vars(ExpandNext)

\* the preprocessor runs on a file that starts a chain of includes
IncludeInit ==
  /\ BackendIdle
  /\ IncludeStart(0..MaxChain)
  /\ SemaIdle
  /\ PreprocessorIdle
  /\ IfIdle
  /\ LaneIdle
  /\ SwitchIdle
  /\ ReflectionIdle
  /\ LockBlocksIdle
  /\ CondIdle
  /\ MacroIdle
  /\ HirIdle
  /\ SymbolIdle

IncludeNext ==
  \/ ProcessFileEnter /\ BackendUnchanged /\ UNCHANGED <<semavars, prevars, ifvars, lanevars, switchvars, reflvars, lockvars, condvars, macvars, hirvars, symvars>>
  \/ IncludeDirective /\ BackendUnchanged /\ UNCHANGED <<semavars, prevars, ifvars, lanevars, switchvars, reflvars, lockvars, condvars, macvars, hirvars, symvars>>
  \/ ProcessFileLines /\ BackendUnchanged /\ UNCHANGED <<semavars, prevars, ifvars, lanevars, switchvars, reflvars, lockvars, condvars, macvars, hirvars, symvars>>
  \/ ProcessFileReturn /\ BackendUnchanged /\ UNCHANGED <<semavars, prevars, ifvars, lanevars, switchvars, reflvars, lockvars, condvars, macvars, hirvars, symvars>>

SpecInclude == IncludeInit /\ [][IncludeNext]_vars

\* the functions of a module are lowered to HIR
HirInit ==
  /\ BackendIdle
  /\ HirStart
  /\ SemaIdle
  /\ PreprocessorIdle
  /\ IfIdle
  /\ LaneIdle
  /\ SwitchIdle
  /\ ReflectionIdle
  /\ LockBlocksIdle
  /\ CondIdle
  /\ MacroIdle
  /\ IncludeIdle
  /\ SymbolIdle

SpecHir ==
  HirInit /\ [][LowerFunction /\ BackendUnchanged /\ UNCHANGED <<semavars, prevars, ifvars, lanevars, switchvars, reflvars, lockvars, condvars, macvars, incvars, symvars>>]_vars

\* sema collects the symbols of one program
SymbolInit ==
  /\ BackendIdle
  /\ SymbolStart(SymbolPrograms)
  /\ SemaIdle
  /\ PreprocessorIdle
  /\ IfIdle
  /\ LaneIdle
  /\ SwitchIdle
  /\ ReflectionIdle
  /\ LockBlocksIdle
  /\ CondIdle
  /\ MacroIdle
  /\ IncludeIdle
  /\ HirIdle

SymbolNext ==
  \/ AnalyzeBootstrap /\ BackendUnchanged /\ UNCHANGED <<semavars, prevars, ifvars, lanevars, switchvars, reflvars, lockvars, condvars, macvars, incvars, hirvars>>
  \/ AnalyzeCollectFunctions /\ BackendUnchanged /\ UNCHANGED <<semavars, prevars, ifvars, lanevars, switchvars, reflvars, lockvars, condvars, macvars, incvars, hirvars>>
  \/ AnalyzeCollectGlobals /\ BackendUnchanged /\ UNCHANGED <<semavars, prevars, ifvars, lanevars, switchvars, reflvars, lockvars, condvars, macvars, incvars, hirvars>>
  \/ AnalyzeProgram /\ BackendUnchanged /\ UNCHANGED <<semavars, prevars, ifvars, lanevars, switchvars, reflvars, lockvars, condvars, macvars, incvars, hirvars>>

SpecSymbols == SymbolInit /\ [][SymbolNext]_vars

\* ------------------------------------------------------------- claims

\* a backend call of the given kind returns in this step
Returns(op) == call.op = op /\ drv # "idle" /\ drv' = "idle"

\* hc_spawn_wait_all returns in this step
WaitAllReturns ==
  \/ drv = "wait" /\ drv' = "finish"
  \/ drv = "reset_wait" /\ drv' = "reset_erase"

\* ids of the module dylibs installed in a session
InstalledModules(s) ==
  IF s.present THEN {s.module_dylibs[i].id : i \in 1..Len(s.module_dylibs)}
  ELSE {}

\* C1: whenever ExecuteIrJit returns, on any return path, the spawn
\* in-flight counter is zero.
C1_ExecuteReturnsWithNothingInFlight ==
  [][Returns("exec") => g_spawn_inflight' = 0]_vars

\* C2: a session's JIT state is never erased while a task started by Spawn
\* is in flight.
C2_NoTeardownWhileInFlight ==
  [][\A k \in SessionKeys :
       (sessions[k].present /\ ~sessions'[k].present) => g_spawn_inflight = 0]_vars

\* C4: a LoadIrJit or ExecuteIrJit that fails in a persistent session
\* (reset_after_run = false) leaves the set of installed modules as it was.
C4_FailedCallKeepsModuleSet ==
  [][((Returns("load") \/ Returns("exec")) /\ ~call.reset /\ ~result'.ok)
       => InstalledModules(sessions'[call.key]) = InstalledModules(sessions[call.key])]_vars

\* C6: hc_spawn_wait_all returns only when the in-flight count is zero and
\* no thread created by Spawn is still executing fn(arg).
C6_WaitAllReturnsOnlyWhenIdle ==
  [][WaitAllReturns =>
       /\ g_spawn_inflight = 0
       /\ \A t \in ThreadIds : thr[t].kind # "task"]_vars

\* C6 witness: the wait has returned after tasks were spawned
C6_Witness ==
  /\ drv \in {"finish", "reset_erase"}
  /\ g_next_task_id > 1
  /\ g_spawn_inflight = 0

ExpectedDylib(s, i, sym) ==
  LET mods     == s.module_dylibs
      definers == {j \in 1..(i - 1) : sym \in mods[j].defs}
  IN IF sym \in mods[i].defs THEN mods[i].id
     ELSE IF definers # {}
       THEN mods[CHOOSE j \in definers : \A h \in definers : h <= j].id
     ELSE IF RuntimeDylibFinds(sym, global_prefix) THEN RuntimeDylib
     ELSE -1

\* C8: a symbol referenced by a module resolves to the module's own
\* definition, else to the most recently installed earlier module that
\* defines it, with the runtime symbols searched last.
C8_ResolutionOrder ==
  \A k \in SessionKeys :
    sessions[k].present =>
      \A i \in 1..Len(sessions[k].module_dylibs) :
        LET m == sessions[k].module_dylibs[i] IN
          \A sym \in m.refs \cup m.defs :
            ResolveSymbol(sessions[k], m, sym, global_prefix)
              = ExpectedDylib(sessions[k], i, sym)

\* C8 witness: the third module references Foo, defined by both earlier ones
C8_Witness ==
  \E k \in SessionKeys :
    /\ sessions[k].present
    /\ Len(sessions[k].module_dylibs) >= 3
    /\ LET mods == sessions[k].module_dylibs
           foo  == LinkerMangledName("Foo", global_prefix)
       IN /\ foo \in mods[1].defs
          /\ foo \in mods[2].defs
          /\ foo \in mods[3].refs
          /\ foo \notin mods[3].defs
          /\ ResolveSymbol(sessions[k], mods[3], foo, global_prefix) = mods[2].id

\* the module whose entry ExecuteIrJit is running
RunningModule ==
  sessions[call.key].module_dylibs[Len(sessions[call.key].module_dylibs)]

SessionDefs(s) ==
  UNION {s.module_dylibs[i].defs : i \in 1..Len(s.module_dylibs)}

\* C9: a module runs only if each symbol it references is defined in the
\* session, is a registered runtime symbol, or is one of _setjmp, setjmp,
\* __sigsetjmp.
C9_OnlyAllowlistedHostSymbols ==
  drv = "main" =>
    \A r \in RunningModule.refs :
      \/ r \in SessionDefs(sessions[call.key])
      \/ r \in MangleAll(RuntimeSymbolNames, global_prefix)
      \/ r \in MangleAll({"_setjmp", "setjmp", "__sigsetjmp"}, global_prefix)

\* C9 witness: executing a module that references puts has failed
C9_Witness ==
  /\ drv = "idle"
  /\ result = [ok |-> FALSE, op |-> "exec"]
  /\ \E k \in SessionKeys :
       /\ sessions[k].present
       /\ Len(sessions[k].module_dylibs) > 0
       /\ LinkerMangledName("puts", global_prefix)
            \in sessions[k].module_dylibs[Len(sessions[k].module_dylibs)].refs

\* C3: a throw statement transfers control to the catch body of the try
\* statement whose region the throw was lowered in (the innermost enclosing
\* try body; for a throw inside a catch body, the next-outer enclosing try
\* body), and aborts the process when it has no enclosing try body.
C3_ThrowReachesEnclosingCatch ==
  [][\A payload \in Payloads :
       hc_throw_i64(payload) =>
         LET region == ExceptionRegionId(try_parent, try_pos)
         IN IF region = -1 THEN try_pc' = "aborted"
            ELSE try_pc' = "run" /\ try_pos' = <<region, "catch">>]_vars

\* C5: a cell ProcessCell rejects, at whatever phase (preprocess/parse, the
\* mixed-cell check, EmitLlvmIr, LoadIrJit, ExecuteIrJit), leaves the
\* declaration catalog and the cell counter as they were, and the read loop
\* continues with no pending text and outside multiline mode.
C5_FailedCellLeavesReplState ==
  [][(processed'.ran /\ ~processed'.ok) =>
       /\ catalog_' = catalog_
       /\ cell_id_' = cell_id_
       /\ pending_input' = <<>>
       /\ explicit_multiline_buffer' = <<>>
       /\ ~explicit_multiline']_vars

\* an executable cell failed in ExecuteIrJit after earlier cells had filled the
\* catalog and advanced the counter
C5_Witness ==
  /\ processed.ran /\ ~processed.ok /\ processed.phase = "execute"
  /\ cell_id_ > 0
  /\ catalog_.function_protos_ # <<>>

\* the names the later units can refer to: those the prelude declares
CatalogNames(catalog) == {DeclaredName(d) : d \in Range(BuildPrelude(catalog))}

\* the top-level declarations of a program: type aliases, classes, linkage
\* declarations, functions and variables
Declarations(program) ==
  {c \in Range(program.children) :
     c.kind \in {"TypeAliasDecl", "ClassDecl", "LinkageDecl", "FunctionDecl"}}
    \cup VarDecls(program)

DeclarationName(node) ==
  IF node.kind = "LinkageDecl" THEN NodeName(Head(node.children)) ELSE NodeName(node)

\* the program of the cell this line submits
SubmittedProgram(line) == ParseAst(CellSubmitted(line).text).program

\* the declarations in `wanted` of every declaration cell that succeeds are
\* in the catalog afterwards; the catalog loses no name except by a reset;
\* and sema rejects no later executable cell that refers only to names of
\* the catalog
DeclarationsStayVisible(wanted(_)) ==
  /\ (processed'.ran /\ processed'.phase = "declared") =>
        \A line \in Lines, fault \in Faults :
          RunRepl(line, fault) =>
            \A d \in Declarations(SubmittedProgram(line)) :
              wanted(d) => DeclarationName(d) \in CatalogNames(catalog_')
  /\ processed'.phase # "reset" =>
        CatalogNames(catalog_) \subseteq CatalogNames(catalog_')
  /\ (processed'.ran /\ processed'.phase = "emit") =>
        \A line \in Lines, fault \in Faults :
          (RunRepl(line, fault)
             /\ ClassifyCell(SubmittedProgram(line)) = "kExecutable") =>
            ~(Identifiers(SubmittedProgram(line)) \subseteq CatalogNames(catalog_))

IsStaticDeclaration(node) == HasModifier(node.text, "static")

\* C10 as stated: every declaration of a declaration-only cell that succeeds
\* is visible to every later cell until a reset.
C10_EveryDeclarationStaysVisible ==
  [][DeclarationsStayVisible(LAMBDA d : TRUE)]_vars

\* C10, amended: every declaration without the static modifier of a
\* declaration-only cell that succeeds is visible to every later cell until a
\* reset; static functions and static variables are not catalogued.
C10_NonStaticDeclarationsStayVisible ==
  [][DeclarationsStayVisible(LAMBDA d : ~IsStaticDeclaration(d))]_vars

\* three cells succeeded since the last reset, one of them declared Add, and
\* the last one, an executable cell, called it
C10_Witness ==
  /\ processed.ran /\ processed.phase = "executed"
  /\ cell_id_ = 3
  /\ "Add" \in CatalogNames(catalog_)

RECURSIVE StatementsInOrder(_, _, _)
\* the gotos, labels, declarations and breaks below a node in source order, each
\* with the number of blocks around it and whether a loop or switch body is
StatementsInOrder(node, blocks, breakable) ==
  LET RECURSIVE Below(_)
      Below(i) ==
        IF i > Len(node.children) THEN <<>>
        ELSE StatementsInOrder(node.children[i],
                               IF node.kind = "Block" THEN blocks + 1 ELSE blocks,
                               breakable \/ node.kind \in {"WhileStmt", "SwitchStmt"})
               \o Below(i + 1)
  IN (IF node.kind \in {"GotoStmt", "LabelStmt", "VarDecl", "BreakStmt"}
        THEN <<[kind |-> node.kind, text |-> node.text, blocks |-> blocks,
                breakable |-> breakable,
                initialized |-> node.kind = "VarDecl" /\ Len(node.children) > 2]>>
      ELSE <<>>) \o Below(1)

\* a goto of the body targets a label in a deeper scope, or jumps forward over
\* an initialized declaration
IllegalGoto(body) ==
  LET s == StatementsInOrder(body, 0, FALSE)
  IN \E i, j \in 1..Len(s) :
       /\ s[i].kind = "GotoStmt" /\ s[j].kind = "LabelStmt" /\ s[i].text = s[j].text
       /\ \/ s[j].blocks > s[i].blocks
          \/ \E k \in (i + 1)..(j - 1) : s[k].initialized

\* C11: a function with a goto into a deeper lexical scope, or with a forward
\* goto over an initialized declaration, is rejected by sema with a message
C11_IllegalGotoRejected ==
  (sema_diag # NotAnalyzed /\ IllegalGoto(fn_body)) =>
    /\ sema_diag.code = "HC3001"
    /\ Len(sema_diag.message) = 3 /\ sema_diag.message[2] # ""

\* a function whose only fault is a forward goto over an initialized declaration
\* has been rejected for it
C11_Witness ==
  /\ IllegalGoto(fn_body)
  /\ sema_diag.code = "HC3001"
  /\ sema_diag.message[2] = "goto jumps across initialized declaration: "

\* C17: sema accepts a function only if each of its break statements is inside
\* a loop or switch body
C17_BreakOutsideLoopRejected ==
  sema_diag = Accepted =>
    LET s == StatementsInOrder(fn_body, 0, FALSE)
    IN \A i \in 1..Len(s) : s[i].kind = "BreakStmt" => s[i].breakable

\* some line of the source is a directive: its first piece after spaces is '#'
HasDirective(source) ==
  \E i \in 1..Len(GetLines(source)) :
    LTrim(GetLines(source)[i]) # <<>> /\ LTrim(GetLines(source)[i])[1].t = "hash"

\* some identifier of the source is a built-in expansion
HasBuiltin(source) ==
  \E i \in 1..Len(source) :
    /\ source[i] = Piece("id", <<"__LINE__">>)
    /\ i > 1 => source[i - 1].t # "id"
    /\ i < Len(source) => source[i + 1].t # "id"

\* C12 as stated: a file without directives comes out of the preprocessor
\* byte for byte
C12_NoDirectivesByteForByte ==
  (pp_result # NotPreprocessed /\ ~HasDirective(pp_files.a)) =>
    pp_result = [code |-> "", text |-> Bytes(pp_files.a)]

\* C12: a file without directives and without built-in expansions, every line
\* of which ends in a newline, comes out of the preprocessor byte for byte
C12_PlainLinesByteForByte ==
  (/\ pp_result # NotPreprocessed
   /\ ~HasDirective(pp_files.a)
   /\ ~HasBuiltin(pp_files.a)
   /\ pp_files.a # <<>> => pp_files.a[Len(pp_files.a)].t = "nl") =>
    pp_result = [code |-> "", text |-> Bytes(pp_files.a)]

\* a file of two lines with an identifier that only contains __LINE__ has been
\* preprocessed
C12_Witness ==
  /\ pp_result # NotPreprocessed
  /\ Len(GetLines(pp_files.a)) = 2
  /\ \E i \in 1..(Len(pp_files.a) - 1) :
       pp_files.a[i] = Piece("id", <<"__LINE__">>) /\ pp_files.a[i + 1].t = "id"
  /\ ~HasDirective(pp_files.a) /\ ~HasBuiltin(pp_files.a)
  /\ pp_files.a[Len(pp_files.a)].t = "nl"

\* the first directive of the source includes the target; nothing but plain
\* lines comes before it
IncludesFirst(source, target) ==
  \E i \in 1..Len(GetLines(source)) :
    /\ LTrim(GetLines(source)[i]) =
         <<Piece("hash", <<"#">>), Piece("id", <<"include">>), Piece("sp", <<" ">>),
           Piece("str", target)>>
    /\ \A j \in 1..(i - 1) : LTrim(GetLines(source)[j]) = <<>>
                             \/ LTrim(GetLines(source)[j])[1].t # "hash"

\* a.hc includes b.hc and b.hc includes a.hc, and the preprocessor has run
IncludeCycle ==
  /\ pp_result # NotPreprocessed
  /\ IncludesFirst(pp_files.a, <<"b.hc">>)
  /\ IncludesFirst(pp_files.b, <<"a.hc">>)

\* the text holds the given bytes one after another
Contains(text, bytes) ==
  \E i \in 0..(Len(text) - Len(bytes)) : SubSeq(text, i + 1, i + Len(bytes)) = bytes

CPrecedence(op) ==
  CASE op \in {"*", "/", "%"} -> 3
    [] op \in {"+", "-"} -> 4
    [] op \in {"<<", ">>"} -> 5
    [] op \in {"<", ">", "<=", ">="} -> 6
    [] op \in {"==", "!="} -> 7
    [] op = "&" -> 8
    [] op = "^" -> 9
    [] op = "|" -> 10
    [] op = "&&" -> 11
    [] op = "||" -> 12

RECURSIVE TwosComplementValue(_)
\* the value C's grammar and two's-complement 64-bit arithmetic give an
\* expression: it is split at the last binary operator of the loosest
\* precedence outside parentheses.  A malformed expression, a division or
\* modulo by zero and a shift count outside 0..63 have no defined value.
TwosComplementValue(tokens) ==
  LET n == Len(tokens)
      depth(i) == Cardinality({j \in 1..(i - 1) : tokens[j].kind = "lparen"})
                    - Cardinality({j \in 1..(i - 1) : tokens[j].kind = "rparen"})
      splits == {i \in 2..(n - 1) : /\ tokens[i].kind = "op"
                                    /\ depth(i) = 0
                                    /\ tokens[i - 1].kind \in {"number", "rparen"}}
      at == CHOOSE i \in splits :
              \A j \in splits :
                \/ CPrecedence(tokens[j].text) < CPrecedence(tokens[i].text)
                \/ CPrecedence(tokens[j].text) = CPrecedence(tokens[i].text) /\ j <= i
      left == TwosComplementValue(SubSeq(tokens, 1, at - 1))
      right == TwosComplementValue(SubSeq(tokens, at + 1, n))
      operand == TwosComplementValue(Tail(tokens))
      Undefined == [defined |-> FALSE, value |-> Int64(0)]
      Defined(value) == [defined |-> TRUE, value |-> value]
  IN IF n = 0 THEN Undefined
     ELSE IF splits # {}
       THEN IF ~left.defined \/ ~right.defined THEN Undefined
            ELSE IF tokens[at].text \in {"/", "%"} /\ right.value = Int64(0) THEN Undefined
            ELSE IF tokens[at].text \in {"<<", ">>"} /\ right.value \notin {Int64(c) : c \in 0..(IntBits - 1)}
              THEN Undefined
            ELSE Defined(Arith(tokens[at].text, left.value, right.value, FALSE))
     ELSE IF tokens[1].kind = "op" /\ tokens[1].text \in {"!", "~", "-", "+"}
       THEN IF ~operand.defined THEN Undefined
            ELSE IF tokens[1].text = "+" THEN operand
            ELSE Defined(Arith(IF tokens[1].text = "-" THEN "neg" ELSE tokens[1].text,
                               operand.value, Int64(0), FALSE))
     ELSE IF n > 2 /\ tokens[1].kind = "lparen" /\ tokens[n].kind = "rparen"
             /\ \A i \in 2..n : depth(i) >= 1
       THEN TwosComplementValue(SubSeq(tokens, 2, n - 1))
     ELSE IF n = 1 /\ tokens[1].kind = "number" THEN Defined(ParseNumber(tokens[1].text))
     ELSE Undefined

\* C14: for every integer expression built from the supported #if operators
\* without division or modulo by zero, the result of the #if evaluator equals
\* two's-complement 64-bit arithmetic evaluated with C-style precedence
C14_IfMatchesTwosComplement ==
  if_result # NotEvaluated /\ TwosComplementValue(if_expr).defined
    => if_result = [value |-> TwosComplementValue(if_expr).value, fail |-> ""]

\* the integer a variable of a type holds: the bytes of an I type are a
\* two's-complement number, the bytes of a U type an unsigned one; as 64 bits
ValueAs64(holy_type, value) ==
  [k \in 1..(IntBits \div 8) |->
     IF k <= Len(value) THEN value[k]
     ELSE IF holy_type \in {"I8", "I16", "I32", "I64"} /\ value[Len(value)] >= 128 THEN 255 ELSE 0]

\* x masked to the bits of the lane, extended to 64 bits by the lane's signedness
MaskedToLane(lane_selector, value64) ==
  LET bytes == ParseLaneInfo(lane_selector).bits \div 8
  IN [k \in 1..(IntBits \div 8) |->
        IF k <= bytes THEN value64[k]
        ELSE IF ParseLaneInfo(lane_selector).is_signed /\ value64[bytes] >= 128 THEN 255 ELSE 0]

\* C15: for every lane width W <= base width B with B divisible by W and every
\* in-range lane index i, writing v.lane[i] = x and then reading v.lane[i]
\* returns x masked to W bits, sign-extended for signed lanes and
\* zero-extended for unsigned lanes
C15_LaneRoundTrip ==
  lane_pc = "done"
    => lane_out = MaskedToLane(lane_stmt.lane, ValueAs64(lane_stmt.rhs_type, lane_x))

\* C16 as stated: for every null-case i of a lowered switch, its begin value
\* is the end value of the last preceding case that is not a null-case, plus 1
C16_NullCaseAfterLastNonNull ==
  switch_pc = "done"
    => \A i \in 1..Len(switch_tests) :
         \A j \in 1..(i - 1) :
           /\ switch_hir.switch_case_flags[i] = 1
           /\ switch_hir.switch_case_flags[j] # 1
           /\ \A k \in (j + 1)..(i - 1) : switch_hir.switch_case_flags[k] = 1
           => switch_tests[i].begin = switch_tests[j].end + 1

\* C16 amended: the begin value of a null-case is the end value of the case
\* just before it, null-case or not, plus 1, and 0 when it is the first case
C16_NullCaseAfterPrecedingCase ==
  switch_pc = "done"
    => \A i \in 1..Len(switch_tests) :
         switch_hir.switch_case_flags[i] = 1
           => /\ switch_tests[i].begin = (IF i = 1 THEN -1 ELSE switch_tests[i - 1].end) + 1
              /\ switch_tests[i].end = switch_tests[i].begin

\* a switch with two null-cases in a row after a range-case is emitted
C16_Witness ==
  /\ switch_pc = "done"
  /\ \E i \in 3..Len(switch_tests) :
       /\ switch_hir.switch_case_flags[i] = 1
       /\ switch_hir.switch_case_flags[i - 1] = 1
       /\ switch_hir.switch_case_flags[i - 2] = 2
       /\ switch_tests[i].begin = switch_tests[i - 2].end + 2

\* C18: after ResetJitSession(name) returns, nothing previously bound to that
\* session name remains: the next LoadIrJit or ExecuteIrJit under that name
\* starts from an empty session, in which no earlier module's symbol resolves
C18_ResetLeavesNothingBound ==
  [][drv = "reset_erase" /\ drv' = "idle"
       => /\ ~sessions'[call.key].present
          /\ \A ir \in IrTexts, f \in Faults, en \in EntryNames :
               LET before == sessions[call.key]
                   earlier == IF before.present
                                THEN UNION {before.module_dylibs[i].defs :
                                              i \in 1..Len(before.module_dylibs)}
                                ELSE {}
                   load == LoadIrJit(sessions'[call.key], ir, f, global_prefix)
                   exec == ExecuteIrJitPrepare(sessions'[call.key], ir, en, f, global_prefix)
                   OnlyNew(state) ==
                     state.present
                       => /\ Len(state.module_dylibs) <= 1
                          /\ \A i \in 1..Len(state.module_dylibs) :
                               LET m == state.module_dylibs[i]
                               IN /\ m.link_order = <<RuntimeDylib>>
                                  /\ \A symbol \in earlier :
                                       symbol \notin m.defs
                                         /\ ~RuntimeDylibFinds(symbol, global_prefix)
                                         => ResolveSymbol(state, m, symbol, global_prefix) = -1
               IN OnlyNew(load.state) /\ OnlyNew(exec.state)]_vars

\* ResetJitSession is about to erase a session that holds modules, one of
\* which defines Foo
C18_Witness ==
  /\ drv = "reset_erase"
  /\ sessions[call.key].present
  /\ \E i \in 1..Len(sessions[call.key].module_dylibs) :
       LinkerMangledName("Foo", global_prefix) \in sessions[call.key].module_dylibs[i].defs

\* C20: on each thread, hc_try_depth() equals the number of frames pushed with
\* hc_try_push that have been neither removed by hc_try_pop nor consumed by a
\* throw, and hc_exception_active() is 1 exactly when that number is greater
\* than zero
C20_DepthCountsLiveFrames ==
  try_pc = "run"
    => /\ hc_try_depth(g_try_stack, frame_prev) = Cardinality(try_live)
       /\ hc_exception_active(g_try_stack) = 1 <=> Cardinality(try_live) > 0

\* what the registered table says of a class: the names of its fields, in order
TableMembers(fields, class_name) ==
  LET OfClass(field) == field.aggregate_name = class_name
      own == SelectSeq(fields, OfClass)
  IN [i \in 1..Len(own) |-> own[i].field_name]

\* what the registered table says of a key of a member: the key is among the
\* annotations of the field or it is not, and its value (1 when none is written)
TableMeta(fields, class_name, member_name, key) ==
  LET Named(field) == field.aggregate_name = class_name /\ field.field_name = member_name
      own == SelectSeq(fields, Named)
      tokens == IF own = <<>> THEN <<>> ELSE own[1].annotations
      keys == {i \in 1..Len(tokens) : i % 2 = 1 /\ tokens[i] = key}
      first == CHOOSE i \in keys : \A j \in keys : i <= j
  IN IF keys = {} THEN NullMeta
     ELSE [key |-> key, value |-> IF first < Len(tokens) THEN tokens[first + 1] ELSE 1]

\* the last HashFind since the registration reflects the registered table
HashFindReflectsTable ==
  hash_find.name # "" =>
    LET members == TableMembers(g_reflection_fields, hash_find.name)
    IN IF members = <<>> THEN hash_find.klass = 0
       ELSE /\ hash_find.klass # 0
            /\ LET klass == g_hash_classes[hash_find.klass]
               IN /\ klass.class_name = hash_find.name
                  /\ [i \in 1..Len(klass.member_lst_and_root) |->
                        klass.member_lst_and_root[i].str] = members

\* the last MemberMetaData / MemberMetaFind since the registration reflects
\* the registered table
MetaLookupReflectsTable ==
  meta_lookup # NoLookup =>
    LET meta == TableMeta(g_reflection_fields, meta_lookup.member.class_name,
                          meta_lookup.member.node.str, meta_lookup.key)
    IN /\ ~meta_lookup.faults
       /\ meta_lookup.meta.value = meta.value
       /\ meta_lookup.call = "MemberMetaFind" => meta_lookup.meta = meta

\* C19 as stated: every HashFind, MemberMetaFind and MemberMetaData made on
\* the thread after hc_register_reflection_table reflects only the table
\* that was registered, never an entry of an earlier table
C19_LookupsReflectNewTable ==
  HashFindReflectsTable /\ MetaLookupReflectsTable

\* C19 amended: after hc_register_reflection_table every HashFind reflects
\* only the registered table, and so does every MemberMetaFind and
\* MemberMetaData on a member that was reached from a HashFind made after
\* the registration; a member kept from before the registration points
\* into the freed cache and the claim says nothing of a lookup through it
C19_LookupsThroughNewCacheReflectNewTable ==
  /\ HashFindReflectsTable
  /\ meta_lookup.member.epoch = reflection_epoch => MetaLookupReflectsTable

\* a second table is registered, HashFind reaches Demo.age in it and the
\* lookup of dft_val reads 5, the value of the second table, while the first
\* table said 9
C19_Witness ==
  /\ reflection_epoch = MaxTables + 1
  /\ g_reflection_fields = <<Field("Demo", "age", <<"dft_val", 5>>)>>
  /\ hash_find = [name |-> "Demo", klass |-> 1]
  /\ meta_lookup.member.epoch = reflection_epoch
  /\ meta_lookup.call = "MemberMetaData"
  /\ meta_lookup.key = "dft_val"
  /\ meta_lookup.meta.value = 5

RECURSIVE FramesOnStack(_, _, _)
\* the frames a walk from cur along prev meets in at most fuel steps: every
\* frame of the thread's try stack when fuel is MaxFrames
FramesOnStack(cur, prev, fuel) ==
  IF cur = NullFrame \/ fuel = 0 THEN {}
  ELSE {cur} \cup FramesOnStack(prev[cur], prev, fuel - 1)

\* C21: however control left a try body (its end, a throw, a branch out of
\* it), the frame of that try statement is no longer on the thread's try
\* stack: every frame on the stack belongs to a try statement whose body
\* control is inside, so a throw cannot enter the catch of an exited try
C21_ExitedTryLeavesNoFrame ==
  \A f \in FramesOnStack(g_try_stack, frame_prev, MaxFrames) :
    <<f, "try">> \in Enclosing(try_parent, try_pos)

\* a statement of a lock block executed as one indivisible step on the value x
LockStatementResult(st, x) ==
  IF st.kind = "incdec"
    THEN AtomicRMW(IF st.assign_op = "++" THEN "add" ELSE "sub", x, 1)
    ELSE AtomicRMW(RmwOp(st.assign_op), x, EmitRhs(st.rhs, x))

RECURSIVE SerialResults(_, _, _)
\* the values of x after the statements of done from position at[t] on, run
\* one whole statement at a time in any order that keeps each thread's own
SerialResults(done, at, x) ==
  LET ready == {t \in DOMAIN done : at[t] <= Len(done[t])}
  IN IF ready = {} THEN {x}
     ELSE UNION {SerialResults(done, [at EXCEPT ![t] = @ + 1],
                               LockStatementResult(done[t][at[t]], x)) : t \in ready}

\* C22: when the threads have finished the statements of their lock blocks,
\* the variable holds what some serial order of those statements leaves in
\* it: no update is lost
C22_LockStatementsSerializable ==
  (\A t \in LockThreads : lock_pc[t].at = "idle") =>
    lock_x \in SerialResults(lock_done, [t \in LockThreads |-> 1], 0)

RECURSIVE SilentZeroValue(_)
\* the value of an expression under C's grammar when a division or modulo by
\* zero yields 0, with the number of such divisions met; a malformed
\* expression and a shift count outside 0..63 have no defined value
SilentZeroValue(tokens) ==
  LET n == Len(tokens)
      depth(i) == Cardinality({j \in 1..(i - 1) : tokens[j].kind = "lparen"})
                    - Cardinality({j \in 1..(i - 1) : tokens[j].kind = "rparen"})
      splits == {i \in 2..(n - 1) : /\ tokens[i].kind = "op"
                                    /\ depth(i) = 0
                                    /\ tokens[i - 1].kind \in {"number", "rparen"}}
      at == CHOOSE i \in splits :
              \A j \in splits :
                \/ CPrecedence(tokens[j].text) < CPrecedence(tokens[i].text)
                \/ CPrecedence(tokens[j].text) = CPrecedence(tokens[i].text) /\ j <= i
      left == SilentZeroValue(SubSeq(tokens, 1, at - 1))
      right == SilentZeroValue(SubSeq(tokens, at + 1, n))
      operand == SilentZeroValue(Tail(tokens))
      Undefined == [defined |-> FALSE, value |-> Int64(0), by_zero |-> 0]
      Defined(value, by_zero) == [defined |-> TRUE, value |-> value, by_zero |-> by_zero]
  IN IF n = 0 THEN Undefined
     ELSE IF splits # {}
       THEN IF ~left.defined \/ ~right.defined THEN Undefined
            ELSE IF tokens[at].text \in {"/", "%"} /\ right.value = Int64(0)
              THEN Defined(Int64(0), left.by_zero + right.by_zero + 1)
            ELSE IF tokens[at].text \in {"<<", ">>"}
                    /\ right.value \notin {Int64(c) : c \in 0..(IntBits - 1)}
              THEN Undefined
            ELSE Defined(Arith(tokens[at].text, left.value, right.value, FALSE),
                         left.by_zero + right.by_zero)
     ELSE IF tokens[1].kind = "op" /\ tokens[1].text \in {"!", "~", "-", "+"}
       THEN IF ~operand.defined THEN Undefined
            ELSE IF tokens[1].text = "+" THEN operand
            ELSE Defined(Arith(IF tokens[1].text = "-" THEN "neg" ELSE tokens[1].text,
                               operand.value, Int64(0), FALSE), operand.by_zero)
     ELSE IF n > 2 /\ tokens[1].kind = "lparen" /\ tokens[n].kind = "rparen"
             /\ \A i \in 2..n : depth(i) >= 1
       THEN SilentZeroValue(SubSeq(tokens, 2, n - 1))
     ELSE IF n = 1 /\ tokens[1].kind = "number" THEN Defined(ParseNumber(tokens[1].text), 0)
     ELSE Undefined

\* C25: a division or modulo by zero in a #if expression produces no
\* diagnostic: the operation yields 0 and the expression is evaluated with it
C25_DivisionByZeroIsSilent ==
  LET silent == SilentZeroValue(if_expr)
  IN (if_result # NotEvaluated /\ if_result.fail # "SIGFPE"
      /\ silent.defined /\ silent.by_zero > 0) =>
       if_result = [value |-> silent.value, fail |-> ""]

\* text at the present line belongs to the selected arm of every open chain
InSelectedArms ==
  \A i \in 1..Len(cond_chains) : cond_chains[i].selected

\* C23: in every #if / #ifdef / #ifndef ... #elif ... #else ... #endif chain
\* text is emitted from at most one arm, the first arm whose condition is true
\* or the #else arm when no earlier arm matched; no arm is emitted when the
\* region around the chain is inactive, and #endif restores the state of the
\* region around the chain
C23_AtMostOneArmEmitted ==
  /\ \A i \in 1..Len(cond_chains) :
       /\ cond_chains[i].emitted_arms <= 1
       /\ cond_chains[i].arm_emitted => cond_chains[i].selected /\ cond_chains[i].enclosing
  /\ cond_last.d = "text" => (cond_last.emitted <=> InSelectedArms)
  /\ (cond_last.d = "endif" /\ cond_diag = "") => IsActive(cond) = cond_last.enclosing

\* an #else arm emits text after an #if and an #elif whose conditions were
\* false, inside the taken arm of an outer chain
C23_Witness ==
  /\ Len(cond) = MaxCondDepth
  /\ cond_last.d = "text" /\ cond_last.emitted
  /\ \A i \in 1..Len(cond) : cond[i].branch_taken /\ cond[i].current_active
  /\ cond_chains[Len(cond_chains)].emitted_arms = 1

\* C24: the condition of a #if inside skipped code is not evaluated, so an
\* expression there that is malformed cannot make preprocessing fail: the
\* line only opens a chain
C24_SkippedConditionNotEvaluated ==
  (cond_last.d = "if" /\ cond_last.skipped) => cond_diag \in {"", "done", "HC1002"}

\* the macros whose expansion is in progress: the bodies of the calls of
\* ExpandText that have not returned
BeingExpanded == {mac_stack[k].ident : k \in 1..Len(mac_stack)} \ {""}

\* C27: the expansion of a line terminates under every macro table, also
\* when macros refer to themselves or to one another, and a macro name met
\* while that macro is being expanded is written to the output unexpanded
C27_ExpansionTerminates ==
  /\ <>(mac_pc = "done")
  /\ [][(ExpandIdent
         /\ mac_stack[Len(mac_stack)].text[mac_stack[Len(mac_stack)].i] \in BeingExpanded) =>
          /\ mac_out' = Append(mac_out, mac_stack[Len(mac_stack)].text[mac_stack[Len(mac_stack)].i])
          /\ Len(mac_stack') = Len(mac_stack)]_vars

\* A expands to B x and B to A: the A inside the body of B was written
\* unexpanded and the expansion of the line A has returned
C27_Witness ==
  /\ macros_ = [m \in MacroNames |-> IF m = "A" THEN <<"B", "x">> ELSE <<"A">>]
  /\ mac_line = <<"A">>
  /\ mac_pc = "done"
  /\ mac_out = <<"A", "x">>

\* C26: the include nesting is capped at 64: a chain of more than 64 nested
\* #include directives fails with HC1001, the lines of no file are read at a
\* depth beyond 64, and a chain of at most 64 does not meet the cap
C26_IncludeDepthCapped ==
  /\ \A depth \in inc_processed : depth <= MaxIncludeDepth
  /\ (inc_chain > MaxIncludeDepth /\ inc_pc \in {"done", "failed"}) => inc_diag = "HC1001"
  /\ inc_diag = "HC1001" => inc_chain > MaxIncludeDepth

\* a chain of 65 nested includes: the file at depth 64 was read, the call of
\* ProcessFile for the next one failed with HC1001
C26_Witness ==
  /\ inc_chain = MaxIncludeDepth + 1
  /\ inc_diag = "HC1001"
  /\ inc_depth = MaxIncludeDepth + 1
  /\ MaxIncludeDepth \in inc_processed

RECURSIVE RegionsInOrder(_, _)
\* the TryCatch statements of lowered statements in depth-first order of
\* appearance (a statement, its try body, its catch body, the statements
\* after it), each with the regions of the try bodies it stands in
RegionsInOrder(stmts, enclosing) ==
  IF stmts = <<>> THEN <<>>
  ELSE <<[region_id |-> stmts[1].exception_region_id,
          parent_region_id |-> stmts[1].exception_parent_region_id,
          enclosing |-> enclosing]>>
         \o RegionsInOrder(stmts[1].try_body, enclosing \cup {stmts[1].exception_region_id})
         \o RegionsInOrder(stmts[1].catch_body, enclosing)
         \o RegionsInOrder(Tail(stmts), enclosing)

\* C28: in a lowered function the region ids of the TryCatch statements are
\* strictly positive, pairwise distinct and assigned in depth-first order of
\* appearance, and each parent_region_id is the id of a try region the
\* statement stands in, or -1
C28_RegionIdsDepthFirst ==
  LET regions == RegionsInOrder(hir_function.body, {})
  IN /\ \A i \in 1..Len(regions) : regions[i].region_id > 0
     /\ \A i \in 1..Len(regions), j \in 1..Len(regions) :
          i < j => regions[i].region_id < regions[j].region_id
     /\ \A i \in 1..Len(regions) :
          \/ regions[i].parent_region_id = -1
          \/ regions[i].parent_region_id \in regions[i].enclosing

\* a second function is lowered: a try statement whose try body holds a try
\* statement with a try statement in its catch body, and one more after it;
\* the regions are 1 (no parent), 2 (in 1), 3 (in the catch of 2, so in 1), 4
C28_Witness ==
  /\ hir_function.lowered = MaxFunctions
  /\ hir_function.block =
       <<TryStmt(<<TryStmt(<<>>, <<TryStmt(<<>>, <<>>)>>)>>, <<>>), TryStmt(<<>>, <<>>)>>
  /\ LET regions == RegionsInOrder(hir_function.body, {})
     IN /\ [i \in 1..Len(regions) |-> regions[i].region_id] = <<1, 2, 3, 4>>
        /\ [i \in 1..Len(regions) |-> regions[i].parent_region_id] = <<-1, 1, 1, -1>>


\* the names present in more than one of the three tables of sema
NamesInTwoTables ==
  LET g == DOMAIN sym_tables.globals
      i == DOMAIN sym_tables.imported
      f == DOMAIN sym_tables.functions
  IN (g \cap i) \cup (g \cap f) \cup (i \cap f)

\* C29: after the analysis of an accepted program no name is present in more
\* than one of the global symbol table, the imported-symbol table and the
\* function table, the built-in names included
C29_TablesAreDisjoint ==
  sym_pc = "accepted" => NamesInTwoTables = {}


\* the first case, in source order, whose resolved range contains s; 0 when
\* there is none
FirstMatchingCase(s) ==
  LET matching == {i \in 1..Len(switch_tests) :
                     switch_tests[i].begin <= s /\ s <= switch_tests[i].end}
  IN IF matching = {} THEN 0
     ELSE CHOOSE i \in matching : \A j \in matching : i <= j

\* control reaches the end of case body i: no statement of it is a break
ReachesEnd(i) ==
  \A k \in 1..Len(switch_bodies.switch_case_bodies[i]) :
    switch_bodies.switch_case_bodies[i][k] # "BreakStmt"

\* C30: a run of an emitted switch with condition value s enters the body of
\* the first case, in source order, whose [begin, end] contains s, or the
\* default body (else nothing before sw.end) when no case matches; control
\* that reaches the end of a case body goes on into the next case body, or
\* after the last case into the default body when there is one, else to sw.end
C30_SwitchEntersFirstMatchAndFallsThrough ==
  switch_pc = "executed"
    => LET entered == switch_run.entered
           first == FirstMatchingCase(switch_run.s)
           n == Len(switch_tests)
           has_default == switch_bodies.switch_default # <<>>
       IN /\ IF first # 0 THEN entered # <<>> /\ entered[1] = CaseBlock(first)
             ELSE IF has_default THEN entered = <<DefaultBlock>>
             ELSE entered = <<>>
          /\ \A k \in 1..Len(entered) :
               entered[k].name = "sw.case" /\ ReachesEnd(entered[k].i)
                 => IF entered[k].i < n
                    THEN k < Len(entered) /\ entered[k + 1] = CaseBlock(entered[k].i + 1)
                    ELSE IF has_default
                    THEN k < Len(entered) /\ entered[k + 1] = DefaultBlock
                    ELSE k = Len(entered)
          /\ \A k \in 1..Len(entered) :
               entered[k].name = "sw.case" /\ ~ReachesEnd(entered[k].i) => k = Len(entered)

\* a run where the first case does not match, a later one does, and control
\* falls from its body into the body after it
C30_Witness ==
  /\ switch_pc = "executed"
  /\ FirstMatchingCase(switch_run.s) > 1
  /\ Len(switch_run.entered) >= 2
  /\ switch_run.entered[1] = CaseBlock(FirstMatchingCase(switch_run.s))
  /\ ReachesEnd(switch_run.entered[1].i)

====
